---- MODULE Spec2Model ----
(***************************************************************************)
(* riot-pulse: the LLM provider layer.                                     *)
(*   riot_pulse/llm/config.py     LLMConfig (layered configuration)        *)
(*   riot_pulse/llm/providers.py  LLMProviderRegistry, get_llm_provider    *)
(*   riot_pulse/llm/base.py       BaseLLMProvider                          *)
(*   riot_pulse/llm/adapters/*.py the adapters                             *)
(*                                                                         *)
(* Python values are tagged records, so that a mapping, a list, a string   *)
(* and None can sit side by side in one dictionary:                        *)
(*   None, Str(s), Num(n), List(q), Map(f)  (f: a function on its keys).   *)
(* A call that can raise returns Ok(v) or Raise(exception, message).       *)
(***************************************************************************)
EXTENDS Integers, Sequences, FiniteSets, TLC

VARIABLES
    pc,          \* the caller: "start", "loaded" (it holds an LLMConfig), "done"
    fs,          \* the configuration file at each of the three search paths
    env,         \* os.environ: variable name -> None or Str(value)
    providers,   \* LLMProviderRegistry._providers, in insertion order
    llm_config,  \* the LLMConfig object of the resolution (its .config), or NoObject
    ret,         \* what the last call returned or raised, with its arguments
    calls,       \* the constructor invocations made by the last call
    registered,  \* how many register() calls were made after module import
    reg_log,     \* every register() call so far, the adapters' own included
    mbase,       \* _merge_configs: argument base
    moverride,   \* _merge_configs: argument override
    mresult,     \* _merge_configs: the returned dictionary, or NoObject
    adapter,     \* the adapter instance under use (class and config), or NoObject
    log,         \* the warnings and errors the adapter logged during the last call
    report_config, \* ReportGenerator.config: games and aspects, or NoObject
    at,          \* generate_report: the loops' position, game i and aspect j
    results,     \* generate_report: results, game -> (aspect -> text)
    game_results,  \* generate_report: game_results of the game being analyzed
    queries,     \* the provider queries issued so far, in order, and their answers
    handed       \* the results handed to the formatter, or NoObject

reportVars == <<report_config, at, results, game_results, queries, handed>>

vars == <<pc, fs, env, providers, llm_config, ret, calls, registered, reg_log,
          mbase, moverride, mresult,
         adapter, log, reportVars>>

-----------------------------------------------------------------------------
(* Python values *)

None == [t |-> "none"]
Str(s) == [t |-> "str", s |-> s]
Num(n) == [t |-> "int", n |-> n]
List(q) == [t |-> "list", items |-> q]
Map(f) == [t |-> "map", m |-> f]
\* the items of an empty dictionary
NoItems == [k \in {} |-> None]
EmptyDict == Map(NoItems)
NoObject == [t |-> "no-object"]

\* isinstance(v, dict)
IsDict(v) == v.t = "map"
IsStr(v) == v.t = "str"

\* bool(v): None, "", 0, [] and {} are falsy
Truthy(v) ==
    CASE v.t = "none" -> FALSE
      [] v.t = "str"  -> v.s # ""
      [] v.t = "int"  -> v.n # 0
      [] v.t = "list" -> Len(v.items) > 0
      [] v.t = "map"  -> DOMAIN v.m # {}
      [] OTHER        -> TRUE

\* a call's outcome
Ok(v) == [ok |-> TRUE, val |-> v]
Raise(exc, msg) == [ok |-> FALSE, exc |-> exc, msg |-> [text |-> msg]]

\* d.get(key, default) on the raw function of a dictionary, for a string key
DictGet(f, key, default) == IF key \in DOMAIN f THEN f[key] ELSE default

\* d[key] = value
DictSet(f, key, value) ==
    [k \in DOMAIN f \cup {key} |-> IF k = key THEN value ELSE f[k]]

\* d.update(other) for two dictionaries: other's items win, key by key (shallow)
DictUpdate(f, g) ==
    [k \in DOMAIN f \cup DOMAIN g |-> IF k \in DOMAIN g THEN g[k] ELSE f[k]]

\* str.lower() on the names the model uses
Lower(s) ==
    CASE s = "OpenAI" -> "openai"
      [] s = "OPENAI" -> "openai"
      [] s = "FOO"    -> "foo"
      [] s = "Foo"    -> "foo"
      [] OTHER        -> s

-----------------------------------------------------------------------------
(* Object identity: an assignment d[key] = value writes to the object d      *)
(* names, so what a statement leaves in a stored dictionary depends on        *)
(* whether the dictionary written to is that object or a copy of it.          *)

\* a plausible bug: no copy is taken, the name is bound to d itself
dict_alias(d) == [fresh |-> FALSE, val |-> d]

\* d.copy(): a new dictionary (or list) holding d's items
dict_copy(d) == [fresh |-> TRUE, val |-> d]

\* the object obj names, after assignments through a reference ref to it or to
\* a copy of it left `written` in the object ref names
After(obj, ref, written) == IF ref.fresh THEN obj ELSE written

-----------------------------------------------------------------------------
(* LLMConfig._merge_configs *)

\* a plausible bug: the override's mapping replaces the base's mapping whole
merge_configs_shallow(base, override) ==
    [k \in DOMAIN base \cup DOMAIN override |->
        IF k \in DOMAIN override THEN override[k] ELSE base[k]]

RECURSIVE merge_configs(_, _)
merge_configs(base, override) ==
    [k \in DOMAIN base \cup DOMAIN override |->
        IF k \in DOMAIN override
        THEN IF k \in DOMAIN base /\ IsDict(base[k]) /\ IsDict(override[k])
             THEN Map(merge_configs(base[k].m, override[k].m))
             ELSE override[k]
        ELSE base[k]]

\* what the base argument holds after the call: result = base.copy(), and every
\* assignment of the loop is to result[key]; override is only read
base_after_merge(base, override) ==
    After(base, dict_copy(base), merge_configs(base, override))

\* the call as Python makes it: override.items() needs a dictionary
MergeCall(base, override) ==
    IF IsDict(override)
    THEN Ok(Map(merge_configs(base.m, override.m)))
    ELSE Raise("AttributeError", "object has no attribute 'items'")

-----------------------------------------------------------------------------
(* The configuration file and the environment *)

Absent == [t |-> "absent"]                \* no file at this path
Unparseable == [t |-> "unparseable"]      \* open() or yaml.safe_load raises
Parsed(doc) == [t |-> "yaml", doc |-> doc] \* yaml.safe_load returns doc

\* config_path, cwd / config_path, cwd.parent / config_path
SearchPaths == 1 .. 3

EnvVars == {"LLM_PROVIDER", "LLM_MODEL", "PERPLEXITY_API_KEY", "OPENAI_API_KEY",
            "ANTHROPIC_API_KEY", "XAI_API_KEY"}

\* os.getenv(name)
getenv(e, name) == e[name]

-----------------------------------------------------------------------------
(* LLMConfig *)

get_defaults ==
    Map("llm" :> Map(
        "provider" :> Str("perplexity") @@
        "perplexity" :> Map("model" :> Str("sonar-pro")) @@
        "openai" :> Map("model" :> Str("gpt-4-turbo-preview")) @@
        "anthropic" :> Map("model" :> Str("claude-3-opus-20240229")) @@
        "xai" :> Map("model" :> Str("grok-1"))))

\* the first search path that exists decides; a failure there is not retried
\* on the next path
load_yaml_config(files) ==
    IF \A i \in SearchPaths : files[i] = Absent
    THEN None
    ELSE LET first == CHOOSE i \in SearchPaths :
                          /\ files[i] # Absent
                          /\ \A j \in SearchPaths : j < i => files[j] = Absent
             f == files[first]
         IN  IF f = Unparseable THEN None
             ELSE IF Truthy(f.doc) THEN f.doc ELSE EmptyDict

load_env_config(e) ==
    LET c1 == IF Truthy(getenv(e, "LLM_PROVIDER"))
              THEN "llm" :> Map("provider" :> getenv(e, "LLM_PROVIDER"))
              ELSE NoItems
    IN  IF Truthy(getenv(e, "LLM_MODEL"))
        THEN LET llm == IF "llm" \in DOMAIN c1 THEN c1["llm"].m ELSE NoItems
                 provider == DictGet(llm, "provider", Str("perplexity"))
             IN  Map("llm" :> Map(DictSet(llm, provider.s,
                                          Map("model" :> getenv(e, "LLM_MODEL")))))
        ELSE Map(c1)

\* LLMConfig.__init__ / _load_config: Ok(config) or the exception that escapes
load_config(files, e) ==
    LET yaml_config == load_yaml_config(files)
        merged == IF Truthy(yaml_config)
                  THEN MergeCall(get_defaults, yaml_config)
                  ELSE Ok(get_defaults)
    IN  IF ~merged.ok THEN merged
        ELSE MergeCall(merged.val, load_env_config(e))

env_var_map ==
    "perplexity" :> "PERPLEXITY_API_KEY" @@
    "openai" :> "OPENAI_API_KEY" @@
    "anthropic" :> "ANTHROPIC_API_KEY" @@
    "xai" :> "XAI_API_KEY"

\* _get_api_key for a string provider name: the variable's value, or None
get_api_key(e, provider) ==
    IF Lower(provider) \in DOMAIN env_var_map
    THEN getenv(e, env_var_map[Lower(provider)])
    ELSE None

\* a plausible bug: the key is stored whatever the lookup returned
InjectApiKey_always(provider_name, sub, api_key) ==
    IF IsDict(sub)
    THEN Ok([name |-> provider_name, config |-> Map(DictSet(sub.m, "api_key", api_key))])
    ELSE Raise("TypeError", "list indices must be integers")

\* if api_key: provider_config["api_key"] = api_key; return {name, config}
InjectApiKey(provider_name, sub, api_key) ==
    IF ~Truthy(api_key)
    THEN Ok([name |-> provider_name, config |-> sub])
    ELSE IF IsDict(sub)
    THEN Ok([name |-> provider_name, config |-> Map(DictSet(sub.m, "api_key", api_key))])
    ELSE Raise("TypeError", "list indices must be integers")

\* LLMConfig.get_provider_config on a loaded config (a dictionary)
get_provider_config(config, e) ==
    LET llm == DictGet(config.m, "llm", EmptyDict)
    IN  IF ~IsDict(llm)
        THEN Raise("AttributeError", "object has no attribute 'get'")
        ELSE
        LET provider_name == DictGet(llm.m, "provider", Str("perplexity"))
        IN  IF provider_name.t \in {"map", "list"}
            THEN Raise("TypeError", "unhashable type")
            ELSE
            LET sub == IF IsStr(provider_name)
                       THEN DictGet(llm.m, provider_name.s, EmptyDict)
                       ELSE EmptyDict
            IN  IF sub.t \notin {"map", "list"}
                THEN Raise("AttributeError", "object has no attribute 'copy'")
                ELSE IF ~IsStr(provider_name)
                THEN Raise("AttributeError", "object has no attribute 'lower'")
                ELSE
                InjectApiKey(provider_name, sub, get_api_key(e, provider_name.s))

\* the section of the selected provider in a loaded config, when the config
\* stores one: self.config.get("llm", {}).get(provider_name, {})
HasSection(config) ==
    /\ "llm" \in DOMAIN config.m
    /\ IsDict(config.m["llm"])
    /\ IsStr(DictGet(config.m["llm"].m, "provider", Str("perplexity")))
    /\ DictGet(config.m["llm"].m, "provider", Str("perplexity")).s
          \in DOMAIN config.m["llm"].m
SectionName(config) == DictGet(config.m["llm"].m, "provider", Str("perplexity")).s
StoredSection(config) == config.m["llm"].m[SectionName(config)]

\* the object get_provider_config hands out as the selection's config: the
\* .copy() of the stored section, or of the {} that get() defaults to
selection_object(config) ==
    IF HasSection(config) THEN dict_copy(StoredSection(config))
    ELSE [fresh |-> TRUE, val |-> EmptyDict]

\* LLMConfig.config once the selection's config object holds `written`
config_after(config, written) ==
    IF ~HasSection(config) THEN config
    ELSE Map(DictSet(config.m, "llm",
             Map(DictSet(config.m["llm"].m, SectionName(config),
                         After(StoredSection(config), selection_object(config),
                               written)))))

\* LLMConfig.config after get_provider_config returned or raised as out
config_after_selection(config, out) ==
    IF out.ok THEN config_after(config, out.val.config) ELSE config

-----------------------------------------------------------------------------
(* The adapters' constructors (BaseLLMProvider.__init__ runs validate_config) *)

AdapterClasses == {"PerplexityAdapter", "OpenAIAdapter", "AnthropicAdapter",
                   "XAIAdapter", "LiteLLMAdapter"}
\* the tests' Mock classes: Mock(return_value = instance)
MockClasses == {"MockA", "MockB"}

\* the Perplexity adapter module is imported by the package but is not part of
\* the sources at hand: the adapter contract of the four others is assumed
perplexity_supported_models == {"sonar-pro", "sonar"}
perplexity_default_model == "sonar-pro"

supported_models(cls) ==
    CASE cls = "OpenAIAdapter" ->
            {"gpt-4", "gpt-4-turbo-preview", "gpt-4-turbo", "gpt-4o", "gpt-4o-mini",
             "gpt-3.5-turbo", "gpt-3.5-turbo-16k"}
      [] cls = "AnthropicAdapter" ->
            {"claude-3-opus-20240229", "claude-3-sonnet-20240229",
             "claude-3-haiku-20240307", "claude-3-5-sonnet-20241022",
             "claude-3-5-haiku-20241022"}
      [] cls = "XAIAdapter" -> {"grok-1", "grok-beta"}
      [] cls = "LiteLLMAdapter" ->
            {"claude-3-5-sonnet-20241022", "claude-3-opus-20240229",
             "claude-3-sonnet-20240229", "claude-3-haiku-20240307",
             "gpt-4o", "gpt-4-turbo", "gpt-4", "gpt-3.5-turbo",
             "gemini/gemini-pro", "gemini/gemini-pro-vision", "vertex_ai/gemini-pro",
             "command-r-plus", "command-r", "command",
             "together_ai/meta-llama/Llama-2-70b-chat-hf",
             "together_ai/meta-llama/Llama-2-13b-chat-hf",
             "together_ai/mistralai/Mixtral-8x7B-Instruct-v0.1",
             "groq/llama2-70b-4096", "groq/mixtral-8x7b-32768",
             "replicate/meta/llama-2-70b-chat:latest",
             "replicate/mistralai/mixtral-8x7b-instruct-v0.1",
             "perplexity/llama-3.1-sonar-large-128k-online",
             "perplexity/llama-3.1-sonar-small-128k-online"}
      [] cls = "PerplexityAdapter" -> perplexity_supported_models
      [] OTHER -> {}

default_model(cls) ==
    CASE cls = "OpenAIAdapter" -> "gpt-4-turbo-preview"
      [] cls = "AnthropicAdapter" -> "claude-3-opus-20240229"
      [] cls = "XAIAdapter" -> "grok-1"
      [] cls = "LiteLLMAdapter" -> "claude-3-5-sonnet-20241022"
      [] cls = "PerplexityAdapter" -> perplexity_default_model
      [] OTHER -> ""

\* a plausible bug: the configured model is ignored
model_default_only(cls, config) == Str(default_model(cls))

\* BaseLLMProvider.model: config.get("model", default_model)
model(cls, config) == DictGet(config.m, "model", Str(default_model(cls)))

\* validate_config of OpenAIAdapter, AnthropicAdapter, XAIAdapter: the credential
\* first, then the model
validate_config(cls, config) ==
    IF ~Truthy(DictGet(config.m, "api_key", None))
    THEN Raise("ValueError", "API key is required")
    ELSE IF ~(IsStr(model(cls, config)) /\ model(cls, config).s \in supported_models(cls))
    THEN Raise("ValueError", "Unsupported model")
    ELSE Ok(TRUE)

\* LiteLLMAdapter.validate_config: a model must be configured; an unknown
\* model pattern is only warned about
litellm_validate_config(config) ==
    IF ~Truthy(DictGet(config.m, "model", None))
    THEN Raise("ValueError", "LiteLLM model is required")
    ELSE Ok(TRUE)

Instance(cls, config) == [cls |-> cls, config |-> config]

\* cls(config)
Construct(cls, config) ==
    IF cls \in MockClasses THEN Ok(Instance(cls, config))
    ELSE IF ~IsDict(config)
    THEN Raise("AttributeError", "object has no attribute 'get'")
    ELSE LET v == IF cls = "LiteLLMAdapter" THEN litellm_validate_config(config)
                  ELSE validate_config(cls, config)
         IN  IF v.ok THEN Ok(Instance(cls, config)) ELSE v

-----------------------------------------------------------------------------
(* The raw responses of the remote call, and _extract_content *)

\* an object with attributes: a |-> the function from attribute name to value
Obj(a) == [t |-> "obj", a |-> a]

\* hasattr(v, name): of the values here only objects expose attributes, and
\* none of the names asked for is an attribute of None, str, list or dict
hasattr(v, name) == v.t = "obj" /\ name \in DOMAIN v.a
getattr(v, name) == v.a[name]

\* str(v): a str is itself, None is "None", anything else its representation,
\* a non-empty string that is none of the strings the responses carry
Repr(v) == [t |-> "str", s |-> "<repr>", of |-> v]
str(v) ==
    IF v.t = "str" THEN v
    ELSE IF v.t = "none" THEN Str("None")
    ELSE Repr(v)

\* a log record
Logged(level, text) == [level |-> level, text |-> text]
UnknownStructure == Logged("warning", "Unknown response structure")

\* what _extract_content did: its outcome and the records it logged
Extracted(out, logged) == [out |-> out, log |-> logged]

\* response.choices[0]: raises on what cannot be indexed
FirstChoice(choices) ==
    IF choices.t = "list" THEN Ok(choices.items[1])
    ELSE Raise("TypeError", "object is not subscriptable")

\* the `choices` branch shared by the OpenAI, xAI and LiteLLM adapters: the
\* inner if/elif; `fallthrough` is what happens when neither arm returns
FromChoice(choice, fallthrough) ==
    IF hasattr(choice, "message") /\ hasattr(getattr(choice, "message"), "content")
    THEN Extracted(Ok(str(getattr(getattr(choice, "message"), "content"))), <<>>)
    ELSE IF hasattr(choice, "text")
    THEN Extracted(Ok(str(getattr(choice, "text"))), <<>>)
    ELSE fallthrough

\* the attribute chain content / text / message / result of the OpenAI, xAI
\* and Anthropic adapters, from `text` on
FromTextOn(response, otherwise) ==
    IF hasattr(response, "text") THEN Extracted(Ok(str(getattr(response, "text"))), <<>>)
    ELSE IF hasattr(response, "message")
    THEN Extracted(Ok(str(getattr(response, "message"))), <<>>)
    ELSE IF hasattr(response, "result")
    THEN Extracted(Ok(str(getattr(response, "result"))), <<>>)
    ELSE otherwise

\* a plausible bug: the unknown shape is stringified without a warning
Fallback_silent(response) == Extracted(Ok(str(response)), <<>>)

\* the final else: logger.warning(...), return str(response)
Fallback(response) == Extracted(Ok(str(response)), <<UnknownStructure>>)

\* OpenAIAdapter._extract_content; XAIAdapter._extract_content is the same
\* code.  A first choice with neither message.content nor text leaves the
\* if/elif chain without a return: the method returns None.
openai_extract_content(response) ==
    IF hasattr(response, "content")
    THEN Extracted(Ok(str(getattr(response, "content"))), <<>>)
    ELSE FromTextOn(response,
           IF hasattr(response, "choices") /\ Truthy(getattr(response, "choices"))
           THEN LET choice == FirstChoice(getattr(response, "choices"))
                IN  IF ~choice.ok THEN Extracted(choice, <<>>)
                    ELSE FromChoice(choice.val, Extracted(Ok(None), <<>>))
           ELSE Fallback(response))

xai_extract_content(response) == openai_extract_content(response)

\* the `content` rule with its list of blocks: the first block's text, else
\* the stringified first block; anything else stringified whole
FromContentBlocks(content) ==
    IF content.t = "list" /\ Len(content.items) > 0
    THEN IF hasattr(content.items[1], "text")
         THEN Extracted(Ok(str(getattr(content.items[1], "text"))), <<>>)
         ELSE Extracted(Ok(str(content.items[1])), <<>>)
    ELSE Extracted(Ok(str(content)), <<>>)

\* AnthropicAdapter._extract_content: no `choices` branch
anthropic_extract_content(response) ==
    IF hasattr(response, "content")
    THEN FromContentBlocks(getattr(response, "content"))
    ELSE FromTextOn(response, Fallback(response))

\* LiteLLMAdapter._extract_content: `choices` first, then content, then text,
\* then the fallback; any exception is logged and the response stringified
litellm_extract_content(response) ==
    LET rest == IF hasattr(response, "content")
                THEN Extracted(Ok(str(getattr(response, "content"))), <<>>)
                ELSE IF hasattr(response, "text")
                THEN Extracted(Ok(str(getattr(response, "text"))), <<>>)
                ELSE Fallback(response)
    IN  IF hasattr(response, "choices") /\ Truthy(getattr(response, "choices"))
        THEN LET choice == FirstChoice(getattr(response, "choices"))
             IN  IF ~choice.ok
                 THEN Extracted(Ok(str(response)),
                                <<Logged("error", "Error extracting content")>>)
                 ELSE FromChoice(choice.val, rest)
        ELSE rest

\* PerplexityAdapter._extract_content, by the normalization algorithm of the
\* specification (steps 1 to 6)
perplexity_extract_content(response) ==
    IF hasattr(response, "content")
    THEN FromContentBlocks(getattr(response, "content"))
    ELSE FromTextOn(response,
           IF hasattr(response, "choices") /\ getattr(response, "choices").t = "list"
              /\ Len(getattr(response, "choices").items) > 0
           THEN FromChoice(getattr(response, "choices").items[1], Fallback(response))
           ELSE Fallback(response))

\* self._extract_content(response) of an adapter of class cls
extract_content(cls, response) ==
    CASE cls = "OpenAIAdapter"     -> openai_extract_content(response)
      [] cls = "XAIAdapter"        -> xai_extract_content(response)
      [] cls = "AnthropicAdapter"  -> anthropic_extract_content(response)
      [] cls = "LiteLLMAdapter"    -> litellm_extract_content(response)
      [] cls = "PerplexityAdapter" -> perplexity_extract_content(response)

-----------------------------------------------------------------------------
(* LLMProviderRegistry: _providers is a dict, kept here in insertion order *)

Entry(name, cls) == [name |-> name, cls |-> cls]
Names(reg) == [i \in DOMAIN reg |-> reg[i].name]
NameSet(reg) == {reg[i].name : i \in DOMAIN reg}
ClassOf(reg, name) == reg[CHOOSE i \in DOMAIN reg : reg[i].name = name].cls

\* a plausible bug: the name is stored as given, not lower-cased
register_as_given(reg, name, cls) ==
    IF name \in NameSet(reg)
    THEN [i \in DOMAIN reg |-> IF reg[i].name = name THEN Entry(name, cls) ELSE reg[i]]
    ELSE Append(reg, Entry(name, cls))

\* a plausible bug: a name already registered keeps its first class
register_first_wins(reg, name, cls) ==
    IF Lower(name) \in NameSet(reg) THEN reg
    ELSE Append(reg, Entry(Lower(name), cls))

\* a plausible bug: every registration adds an entry of its own
register_appending(reg, name, cls) == Append(reg, Entry(Lower(name), cls))

\* _providers[name.lower()] = provider_class
register(reg, name, cls) ==
    IF Lower(name) \in NameSet(reg)
    THEN [i \in DOMAIN reg |->
            IF reg[i].name = Lower(name) THEN Entry(Lower(name), cls) ELSE reg[i]]
    ELSE Append(reg, Entry(Lower(name), cls))

\* f"Unknown LLM provider: '{name}'. Available providers: {available}"
UnknownProvider(name, reg) ==
    [ok |-> FALSE, exc |-> "ValueError",
     msg |-> [text |-> "Unknown LLM provider", requested |-> name,
              available |-> Names(reg)]]

\* a plausible bug: the error lists no registered name
get_provider_no_list(reg, name, config) ==
    IF Lower(name) \notin NameSet(reg)
    THEN [out |-> UnknownProvider(name, <<>>), calls |-> <<>>]
    ELSE [out |-> Construct(ClassOf(reg, Lower(name)), config),
          calls |-> <<[cls |-> ClassOf(reg, Lower(name)), config |-> config]>>]

\* get_provider: the outcome and the constructor calls it made
get_provider(reg, name, config) ==
    IF Lower(name) \notin NameSet(reg)
    THEN [out |-> UnknownProvider(name, reg), calls |-> <<>>]
    ELSE [out |-> Construct(ClassOf(reg, Lower(name)), config),
          calls |-> <<[cls |-> ClassOf(reg, Lower(name)), config |-> config]>>]

list_providers(reg) == Names(reg)

\* the adapter modules in the order adapters/__init__.py imports them, each
\* registering its class when its import succeeds
AdapterModules ==
    << Entry("perplexity", "PerplexityAdapter"), Entry("openai", "OpenAIAdapter"),
       Entry("anthropic", "AnthropicAdapter"), Entry("xai", "XAIAdapter"),
       Entry("litellm", "LiteLLMAdapter") >>

RECURSIVE load_from(_, _, _)
\* a plausible bug: the first failing import ends the loading
load_from_stops(reg, i, importable) ==
    IF i > Len(AdapterModules) \/ AdapterModules[i].name \notin importable THEN reg
    ELSE load_from(register(reg, AdapterModules[i].name, AdapterModules[i].cls),
                   i + 1, importable)

load_from(reg, i, importable) ==
    IF i > Len(AdapterModules) THEN reg
    ELSE load_from(IF AdapterModules[i].name \in importable
                   THEN register(reg, AdapterModules[i].name, AdapterModules[i].cls)
                   ELSE reg,
                   i + 1, importable)

\* _load_adapters: an ImportError is caught and logged
load_adapters(importable) == load_from(<<>>, 1, importable)

\* the register() calls those imports make, in order
import_log(importable) ==
    SelectSeq(AdapterModules, LAMBDA a : a.name \in importable)

-----------------------------------------------------------------------------
(* get_llm_provider *)

\* bool(x) for an optional string argument
Given(x) == Truthy(x)

\* a plausible bug: the override's own section is not merged back in
UpdateCall_skipped(config, other) == Ok(config)

\* provider_config["config"].update(provider_specific)
UpdateCall(config, other) ==
    IF ~IsDict(config)
    THEN Raise("AttributeError", "object has no attribute 'update'")
    ELSE CASE other.t = "map" -> Ok(Map(DictUpdate(config.m, other.m)))
           [] other.t = "str" /\ other.s = "" -> Ok(config)
           [] other.t = "list" /\ other.items = <<>> -> Ok(config)
           [] other.t \in {"str", "list"} ->
                Raise("ValueError", "dictionary update sequence element")
           [] OTHER -> Raise("TypeError", "object is not iterable")

\* a plausible bug: setdefault, the override yields to a configured model
SetModelCall_setdefault(config, m) ==
    IF ~IsDict(config) THEN Raise("TypeError", "list indices must be integers")
    ELSE IF "model" \in DOMAIN config.m THEN Ok(config)
    ELSE Ok(Map(DictSet(config.m, "model", m)))

\* provider_config["config"]["model"] = model_override
SetModelCall(config, m) ==
    IF IsDict(config) THEN Ok(Map(DictSet(config.m, "model", m)))
    ELSE Raise("TypeError", "list indices must be integers")

Failed(out) == [out |-> out, sel |-> NoObject, calls |-> <<>>]

\* the call: its outcome, the selection handed to the registry and the
\* constructor calls made
get_llm_provider(files, e, reg, provider_override, model_override) ==
    LET loaded == load_config(files, e)
    IN  IF ~loaded.ok THEN Failed(loaded)
        ELSE
        LET provider_config == get_provider_config(loaded.val, e)
        IN  IF ~provider_config.ok THEN Failed(provider_config)
            ELSE
            LET name == IF Given(provider_override) THEN provider_override
                        ELSE provider_config.val.name
                provider_specific ==
                    DictGet(loaded.val.m["llm"].m, provider_override.s, EmptyDict)
                updated == IF Given(provider_override)
                           THEN UpdateCall(provider_config.val.config, provider_specific)
                           ELSE Ok(provider_config.val.config)
            IN  IF ~updated.ok THEN Failed(updated)
                ELSE
                LET final == IF Given(model_override)
                             THEN SetModelCall(updated.val, model_override)
                             ELSE updated
                IN  IF ~final.ok THEN Failed(final)
                    ELSE LET got == get_provider(reg, name.s, final.val)
                         IN  [out |-> got.out,
                              sel |-> [name |-> name, config |-> final.val],
                              calls |-> got.calls]

-----------------------------------------------------------------------------
(* Inputs: the files, environments and arguments the model draws from *)

\* optional entries of a dictionary: each key is left out or takes one of its values
Optional(key, values) == {NoItems} \cup {key :> v : v \in values}

\* `llm` sections of config.yaml shaped as LLMConfig expects
LlmSections ==
    { Map(p @@ a @@ b @@ (IF "provider" \in DOMAIN p /\ p["provider"] = Str("litellm")
                          THEN "litellm" :> Map("model" :> Str("gpt-4o"))
                          ELSE NoItems)) :
        p \in Optional("provider", {Str("openai"), Str("litellm")}),
        a \in Optional("perplexity", {Map("temperature" :> Str("0.7"))}),
        b \in Optional("openai",
                 { Map("model" :> Str("gpt-4o") @@ "temperature" :> Str("0.2")),
                   Map("api_key" :> Str("file-key")) }) }

WellFormedDocs == {Map("llm" :> l) : l \in LlmSections} \cup {Map("other" :> Str("x"))}

\* documents yaml.safe_load accepts that are not shaped so
MalformedDocs ==
    { List(<<Str("llm")>>), Str("llm"), Map("llm" :> Str("openai")),
      Map("llm" :> Map("provider" :> None)),
      Map("llm" :> Map("provider" :> Num(5))),
      Map("llm" :> Map("openai" :> None)),
      Map("llm" :> Map("provider" :> Str("openai") @@ "openai" :> None)) }

\* an empty file parses to None, an empty mapping to {}
EmptyDocs == {None, EmptyDict}

Docs == WellFormedDocs \cup MalformedDocs \cup EmptyDocs

OneFile(f) == <<f, Absent, Absent>>

FileSystems ==
    {OneFile(Absent), OneFile(Unparseable)}
    \cup {OneFile(Parsed(d)) : d \in Docs}
    \cup { <<Absent, Absent, Parsed(Map("llm" :> Map("provider" :> Str("openai"))))>>,
           <<Unparseable, Absent, Parsed(Map("llm" :> Map("provider" :> Str("openai"))))>>,
           <<Parsed(Map("llm" :> Map("provider" :> Str("litellm")))), Absent,
             Parsed(Map("llm" :> Map("provider" :> Str("openai"))))>> }

Environments ==
    { [v \in EnvVars |->
         CASE v = "LLM_PROVIDER" -> p
           [] v = "LLM_MODEL" -> m
           [] v = "PERPLEXITY_API_KEY" -> kp
           [] v = "OPENAI_API_KEY" -> ko
           [] OTHER -> None] :
        p \in {None, Str("openai")},
        m \in {None, Str("gpt-4")},
        kp \in {None, Str("key-perplexity")},
        ko \in {None, Str(""), Str("key-openai")} }

ImportableSets ==
    { {"perplexity", "openai", "anthropic", "xai", "litellm"},
      {"openai", "anthropic", "xai", "litellm"} }

ProviderOverrides == {None, Str("openai"), Str("OpenAI"), Str("litellm"), Str("acme")}
ModelOverrides == {None, Str(""), Str("gpt-4-turbo")}

-----------------------------------------------------------------------------
(* Configuration resolution: the state machine.  One run of a caller: it    *)
(* either builds an LLMConfig and asks it for the selection, or calls        *)
(* get_llm_provider once, which does both and constructs the adapter.  No    *)
(* entry point writes the files, the environment or the registry, so a       *)
(* second call in the same run would repeat the first.                       *)

NoCall == [op |-> "none"]

\* no report is being generated
ReportIdle ==
    /\ report_config = NoObject
    /\ at = [i |-> 0, j |-> 0]
    /\ results = NoItems
    /\ game_results = NoItems
    /\ queries = <<>>
    /\ handed = NoObject

Init ==
    /\ pc = "start"
    /\ fs \in FileSystems
    /\ env \in Environments
    /\ \E i \in ImportableSets :
          /\ providers = load_adapters(i)
          /\ reg_log = import_log(i)
    /\ llm_config = NoObject
    /\ ret = NoCall
    /\ calls = <<>>
    /\ registered = 0
    /\ mbase = NoObject
    /\ moverride = NoObject
    /\ mresult = NoObject
    /\ adapter = NoObject
    /\ log = <<>>
    /\ ReportIdle

\* the LLMConfig that get_llm_provider built, at its return: loaded, then
\* written to through the selection's config when the overrides were applied
config_after_call(loaded, sel, before) ==
    IF ~loaded.ok THEN before
    ELSE IF sel = NoObject THEN loaded.val
    ELSE config_after(loaded.val, sel.config)

\* llm_config = LLMConfig()
NewLLMConfig ==
    LET loaded == load_config(fs, env)
    IN  /\ pc = "start"
        /\ pc' = IF loaded.ok THEN "loaded" ELSE "done"
        /\ llm_config' = IF loaded.ok THEN loaded.val ELSE llm_config
        /\ ret' = [op |-> "LLMConfig", out |-> loaded]
        /\ calls' = <<>>
        /\ UNCHANGED <<reportVars, fs, env, providers, registered, reg_log, mbase, moverride, mresult, adapter, log>>

\* llm_config.get_provider_config()
GetProviderConfig ==
    /\ pc = "loaded"
    /\ pc' = "done"
    /\ ret' = [op |-> "get_provider_config", out |-> get_provider_config(llm_config, env)]
    /\ llm_config' = config_after_selection(llm_config, get_provider_config(llm_config, env))
    /\ calls' = <<>>
    /\ UNCHANGED <<reportVars, fs, env, providers, registered, reg_log, mbase, moverride, mresult, adapter, log>>

\* get_llm_provider(None, provider_override, model_override)
GetLLMProvider(provider_override, model_override) ==
    LET r == get_llm_provider(fs, env, providers, provider_override, model_override)
    IN  /\ pc = "start"
        /\ pc' = "done"
        /\ ret' = [op |-> "get_llm_provider", po |-> provider_override,
                   mo |-> model_override, out |-> r.out, sel |-> r.sel]
        /\ calls' = r.calls
        /\ llm_config' = config_after_call(load_config(fs, env), r.sel, llm_config)
        /\ UNCHANGED <<reportVars, fs, env, providers, registered, reg_log, mbase, moverride, mresult, adapter, log>>

Next ==
    \/ NewLLMConfig
    \/ GetProviderConfig
    \/ \E po \in ProviderOverrides, mo \in ModelOverrides : GetLLMProvider(po, mo)

Spec == Init /\ [][Next]_vars

-----------------------------------------------------------------------------
(* What the layers say, read off the inputs *)

\* the document of the file layer: that of the first path holding a file, when
\* it parses
FileDoc ==
    IF \A i \in SearchPaths : fs[i] = Absent THEN None
    ELSE LET i == CHOOSE n \in SearchPaths :
                      fs[n] # Absent /\ \A j \in SearchPaths : j < n => fs[j] = Absent
         IN  IF fs[i] = Unparseable THEN None ELSE fs[i].doc

FileLlm ==
    IF IsDict(FileDoc) /\ "llm" \in DOMAIN FileDoc.m /\ IsDict(FileDoc.m["llm"])
    THEN FileDoc.m["llm"].m
    ELSE NoItems

\* a file shaped as LLMConfig expects: a mapping (or empty) whose `llm`, if
\* any, is a mapping with a string `provider` and a mapping per provider
FileWellFormed ==
    \/ ~Truthy(FileDoc)
    \/ /\ IsDict(FileDoc)
       /\ "llm" \in DOMAIN FileDoc.m =>
            /\ IsDict(FileDoc.m["llm"])
            /\ \A k \in DOMAIN FileLlm :
                 IF k = "provider" THEN IsStr(FileLlm[k]) ELSE IsDict(FileLlm[k])

\* the provider selected once the environment layer is applied
EnvSelected ==
    IF Truthy(env["LLM_PROVIDER"]) THEN env["LLM_PROVIDER"]
    ELSE IF "provider" \in DOMAIN FileLlm THEN FileLlm["provider"]
    ELSE Str("perplexity")

\* the provider selected once the override is applied too
Selected(po) == IF Given(po) THEN po ELSE EnvSelected

DefaultsLlm == get_defaults.m["llm"].m

\* the layers defining key k of provider P, highest first, and the value of
\* the highest one
OverrideDefines(k, mo) == k = "model" /\ Given(mo)
EnvDefines(k, P) == k = "model" /\ Truthy(env["LLM_MODEL"]) /\ P = EnvSelected
FileDefines(k, P) ==
    P.s \in DOMAIN FileLlm /\ IsDict(FileLlm[P.s]) /\ k \in DOMAIN FileLlm[P.s].m
DefaultDefines(k, P) == P.s \in DOMAIN DefaultsLlm /\ k \in DOMAIN DefaultsLlm[P.s].m
LayerDefines(k, P, mo) ==
    OverrideDefines(k, mo) \/ EnvDefines(k, P) \/ FileDefines(k, P) \/ DefaultDefines(k, P)
LayerValue(k, P, mo) ==
    IF OverrideDefines(k, mo) THEN mo
    ELSE IF EnvDefines(k, P) THEN env["LLM_MODEL"]
    ELSE IF FileDefines(k, P) THEN FileLlm[P.s].m[k]
    ELSE DefaultsLlm[P.s].m[k]

ConfigKeys == {"model", "temperature"}

\* the credential of provider P in the environment, by the fixed table
Credential(P) ==
    IF Lower(P) \in DOMAIN env_var_map THEN env[env_var_map[Lower(P)]] ELSE None

\* get_llm_provider got as far as the registry with this selection
Resolved == ret.op = "get_llm_provider" /\ ret.sel # NoObject
\* ... and the registry called the adapter's constructor
Handed == ret.op = "get_llm_provider" /\ calls # <<>>

-----------------------------------------------------------------------------
(* The claims about configuration resolution *)

\* C1: layer precedence, override > environment > file > defaults: the resolved
\* provider name, and every key of the selected provider's config that some
\* layer defines, have the value of the highest layer defining them.
C1_LayerPrecedence ==
    (Resolved /\ FileWellFormed) =>
        /\ ret.sel.name = Selected(ret.po)
        /\ \A k \in ConfigKeys :
             LayerDefines(k, ret.sel.name, ret.mo) =>
                /\ k \in DOMAIN ret.sel.config.m
                /\ ret.sel.config.m[k] = LayerValue(k, ret.sel.name, ret.mo)

\* C3: with LLM_MODEL set, the selection returned by get_provider_config is the
\* provider selected after the environment layer's own provider choice
\* (LLM_PROVIDER, else the file's provider, else the default) and its model is
\* LLM_MODEL.
C3_EnvModelUnderSelectedProvider ==
    (ret.op = "get_provider_config" /\ ret.out.ok /\ FileWellFormed
        /\ Truthy(env["LLM_MODEL"])) =>
        /\ ret.out.val.name = EnvSelected
        /\ "model" \in DOMAIN ret.out.val.config.m
        /\ ret.out.val.config.m["model"] = env["LLM_MODEL"]

\* some section of the file sets an api_key of its own
FileHoldsApiKey ==
    \E P \in DOMAIN FileLlm : IsDict(FileLlm[P]) /\ "api_key" \in DOMAIN FileLlm[P].m

\* C4: with no api_key written in the file, the api_key in the config handed
\* to the adapter's constructor is the credential of the provider finally
\* selected: the value of its variable when that is set, absent otherwise, and
\* never another provider's credential.
C4_ApiKeyOfSelectedProvider ==
    (Handed /\ ~FileHoldsApiKey) =>
        LET cfg == calls[1].config.m
            P == ret.sel.name.s
        IN  /\ IF Truthy(Credential(P))
               THEN "api_key" \in DOMAIN cfg /\ cfg["api_key"] = Credential(P)
               ELSE "api_key" \notin DOMAIN cfg
            /\ \A Q \in DOMAIN env_var_map :
                 (Q # Lower(P) /\ Truthy(Credential(Q)) /\ "api_key" \in DOMAIN cfg)
                    => cfg["api_key"] # Credential(Q)

\* the section of provider B in the merged file/env/default configuration
MergedSection(B) ==
    LET llm == load_config(fs, env).val.m["llm"].m
    IN  IF B \in DOMAIN llm /\ IsDict(llm[B]) THEN llm[B].m ELSE NoItems

\* C5 as stated: with a provider_override B the adapter of B is handed every
\* key of B's merged section with its value.
C5_OverrideKeepsSectionAsStated ==
    (Handed /\ Given(ret.po)) =>
        /\ ret.sel.name = ret.po
        /\ \A k \in DOMAIN MergedSection(ret.po.s) :
             /\ k \in DOMAIN calls[1].config.m
             /\ calls[1].config.m[k] = MergedSection(ret.po.s)[k]

\* C5 as amended: with a provider_override B the resolved name is B and the
\* adapter is handed every key of B's merged section, with the section's value
\* except for `model` when a model_override is given too, which then holds the
\* model_override.
C5_OverrideKeepsSection ==
    (Handed /\ Given(ret.po)) =>
        /\ ret.sel.name = ret.po
        /\ \A k \in DOMAIN MergedSection(ret.po.s) :
             /\ k \in DOMAIN calls[1].config.m
             /\ calls[1].config.m[k] =
                    IF k = "model" /\ Given(ret.mo) THEN ret.mo
                    ELSE MergedSection(ret.po.s)[k]

C5_Witness ==
    /\ Handed
    /\ ret.po = Str("openai")
    /\ EnvSelected = Str("perplexity")
    /\ MergedSection("openai") = ("model" :> Str("gpt-4o") @@ "temperature" :> Str("0.2"))
    /\ calls[1].cls = "OpenAIAdapter"
    /\ IsDict(calls[1].config)
    /\ DictGet(calls[1].config.m, "temperature", None) = Str("0.2")
    /\ DictGet(calls[1].config.m, "model", None) = Str("gpt-4o")

\* C6 as stated: a model_override m, any string, reaches the adapter as
\* config.model = m.
C6_ModelOverrideWinsAsStated ==
    (Handed /\ ret.mo # None) =>
        /\ "model" \in DOMAIN calls[1].config.m
        /\ calls[1].config.m["model"] = ret.mo

\* C6 as amended: a non-empty model_override m reaches the adapter as
\* config.model = m, whatever the defaults, the file, LLM_MODEL or a re-merged
\* section say (an empty string is no override: `if model_override:`).
C6_ModelOverrideWins ==
    (Handed /\ Given(ret.mo)) =>
        /\ "model" \in DOMAIN calls[1].config.m
        /\ calls[1].config.m["model"] = ret.mo

\* file {llm: {provider: litellm, litellm: {model: gpt-4o}}}, environment
\* unset, model_override gpt-4-turbo: litellm with model gpt-4-turbo
C6_Witness ==
    /\ Handed
    /\ FileLlm = ("provider" :> Str("litellm") @@
                  "litellm" :> Map("model" :> Str("gpt-4o")))
    /\ \A v \in EnvVars : env[v] = None
    /\ ret.po = None
    /\ ret.mo = Str("gpt-4-turbo")
    /\ ret.sel.name = Str("litellm")
    /\ DictGet(calls[1].config.m, "model", None) = Str("gpt-4-turbo")
    /\ ret.out.ok

\* C7 as stated: when the selected provider has no entry in the table, or its
\* variable is unset or empty, get_provider_config returns normally and the
\* config it returns has no api_key key.
C7_NoApiKeyAsStated ==
    (ret.op = "get_provider_config" /\ FileWellFormed
        /\ ~Truthy(Credential(EnvSelected.s))) =>
        /\ ret.out.ok
        /\ "api_key" \notin DOMAIN ret.out.val.config.m

\* C7 as amended: construction and get_provider_config never fail for a
\* missing credential: they raise only on a file that is not shaped as
\* expected; and when the selected provider has no entry in the table, or its
\* variable is unset or empty, no api_key is injected: the returned config is
\* the provider's merged section as it is, with an api_key only if the section
\* itself holds one.
C7_MissingCredentialNotFatal ==
    /\ (ret.op \in {"LLMConfig", "get_provider_config"} /\ FileWellFormed) => ret.out.ok
    /\ (ret.op = "get_provider_config" /\ ret.out.ok
          /\ ~Truthy(Credential(ret.out.val.name.s))) =>
            /\ IsDict(ret.out.val.config)
            /\ ret.out.val.config.m = MergedSection(ret.out.val.name.s)

C7_Witness ==
    /\ ret.op = "get_provider_config"
    /\ ret.out.ok
    /\ ret.out.val.name = Str("openai")
    /\ env["OPENAI_API_KEY"] = Str("")
    /\ env["PERPLEXITY_API_KEY"] # None
    /\ "api_key" \notin DOMAIN ret.out.val.config.m

\* C8: whatever the file holds (nothing at any path, unparseable, empty, not a
\* mapping, an `llm` that is no mapping), construction and get_provider_config
\* return normally; and with no file or an unparseable one the selection is
\* that of defaults and environment alone.
C8_MalformedFileNonFatal ==
    /\ ret.op \in {"LLMConfig", "get_provider_config"} => ret.out.ok
    /\ (ret.op = "get_provider_config" /\ FileDoc = None) =>
          ret.out = get_provider_config(
                        Map(merge_configs(get_defaults.m, load_env_config(env).m)), env)

-----------------------------------------------------------------------------
(* _merge_configs as a function of its two arguments *)

MaxDepth == 2

Leaves == {Str("1"), Str("2"), Num(5), List(<<Str("1")>>), List(<<Str("2")>>)}

KeysAt(d) == IF d = 1 THEN {"x", "y"} ELSE {"a"}

PartialFns(K, V) == UNION {[S -> V] : S \in SUBSET K}

RECURSIVE Values(_)
Values(d) ==
    IF d = 0 THEN Leaves
    ELSE Leaves \cup {Map(f) : f \in PartialFns(KeysAt(d), Values(d - 1))}

\* dictionaries nested at most d deep
Dicts(d) == {Map(f) : f \in PartialFns(KeysAt(d), Values(d - 1))}

InitMerge ==
    /\ pc = "start"
    /\ fs = OneFile(Absent)
    /\ env = [v \in EnvVars |-> None]
    /\ providers = <<>>
    /\ reg_log = <<>>
    /\ llm_config = NoObject
    /\ ret = NoCall
    /\ calls = <<>>
    /\ registered = 0
    /\ mbase \in Dicts(MaxDepth)
    /\ moverride \in Dicts(MaxDepth)
    /\ mresult = NoObject
    /\ adapter = NoObject
    /\ log = <<>>
    /\ ReportIdle

\* mresult = self._merge_configs(mbase, moverride)
MergeConfigs ==
    /\ mresult = NoObject
    /\ mbase # NoObject
    /\ mresult' = MergeCall(mbase, moverride).val
    /\ mbase' = Map(base_after_merge(mbase.m, moverride.m))
    /\ UNCHANGED <<reportVars, pc, fs, env, providers, llm_config, ret, calls, registered, reg_log,
                   moverride, adapter, log>>

NextMerge == MergeConfigs

SpecMerge == InitMerge /\ [][NextMerge]_vars

\* C2: the merge is replacement-based and keeps what only the base has: a key of
\* the override alone or of the base alone keeps its value; where both hold a
\* mapping the result holds their merge, by the same rule; anywhere else the
\* override's value stands whole (a scalar for a mapping, a mapping for a scalar,
\* a list for a list); and the two examples of the specification come out as
\* written.
RECURSIVE MergedAsClaimed(_, _, _)
MergedAsClaimed(b, o, r) ==
    /\ DOMAIN r = DOMAIN b \cup DOMAIN o
    /\ \A k \in DOMAIN r :
         IF k \notin DOMAIN o THEN r[k] = b[k]
         ELSE IF k \in DOMAIN b /\ IsDict(b[k]) /\ IsDict(o[k])
         THEN IsDict(r[k]) /\ MergedAsClaimed(b[k].m, o[k].m, r[k].m)
         ELSE r[k] = o[k]

C2_MergeReplacesOrRecurses ==
    mresult # NoObject =>
        /\ IsDict(mresult)
        /\ MergedAsClaimed(mbase.m, moverride.m, mresult.m)
        /\ (mbase = Map("a" :> Map("x" :> Str("1")))
              /\ moverride = Map("a" :> Map("y" :> Str("2")))
            => mresult = Map("a" :> Map("x" :> Str("1") @@ "y" :> Str("2"))))
        /\ (mbase = Map("a" :> Map("x" :> Str("1"))) /\ moverride = Map("a" :> Num(5))
            => mresult = Map("a" :> Num(5)))

C2_Witness ==
    /\ mbase = Map("a" :> Map("x" :> Str("1")))
    /\ moverride = Map("a" :> Map("y" :> Str("2")))
    /\ mresult = Map("a" :> Map("x" :> Str("1") @@ "y" :> Str("2")))

-----------------------------------------------------------------------------
(* The registry as its callers drive it: register, get_provider, list_providers *)

MaxRegister == 2

RegisterNames == {"foo", "FOO", "bar", "OpenAI"}
LookupNames == RegisterNames \cup {"Foo", "openai"}
LookupConfigs ==
    { Map("test" :> Str("config")), EmptyDict,
      Map("api_key" :> Str("key-openai") @@ "model" :> Str("gpt-4o")) }

InitRegistry ==
    /\ pc = "start"
    /\ fs = OneFile(Absent)
    /\ env = [v \in EnvVars |-> None]
    /\ \E i \in ImportableSets :
          /\ providers = load_adapters(i)
          /\ reg_log = import_log(i)
    /\ llm_config = NoObject
    /\ ret = NoCall
    /\ calls = <<>>
    /\ registered = 0
    /\ mbase = NoObject
    /\ moverride = NoObject
    /\ mresult = NoObject
    /\ adapter = NoObject
    /\ log = <<>>
    /\ ReportIdle

\* LLMProviderRegistry.register(name, cls)
Register(name, cls) ==
    /\ registered < MaxRegister
    /\ registered' = registered + 1
    /\ providers' = register(providers, name, cls)
    /\ reg_log' = Append(reg_log, Entry(name, cls))
    /\ ret' = [op |-> "register", name |-> name, cls |-> cls, out |-> Ok(None),
               before |-> providers]
    /\ calls' = <<>>
    /\ UNCHANGED <<reportVars, pc, fs, env, llm_config, mbase, moverride, mresult, adapter, log>>

\* LLMProviderRegistry.get_provider(name, config)
GetProvider(name, config) ==
    LET r == get_provider(providers, name, config)
    IN  /\ ret' = [op |-> "get_provider", name |-> name, config |-> config,
                   out |-> r.out, before |-> providers]
        /\ calls' = r.calls
        /\ UNCHANGED <<reportVars, pc, fs, env, providers, llm_config, registered, reg_log,
                       mbase, moverride, mresult, adapter, log>>

\* LLMProviderRegistry.list_providers()
ListProviders ==
    /\ ret' = [op |-> "list_providers", out |-> Ok(List(list_providers(providers))),
               before |-> providers]
    /\ calls' = <<>>
    /\ UNCHANGED <<reportVars, pc, fs, env, providers, llm_config, registered, reg_log,
                   mbase, moverride, mresult, adapter, log>>

NextRegistry ==
    \/ \E n \in RegisterNames, c \in MockClasses : Register(n, c)
    \/ \E n \in LookupNames, c \in LookupConfigs : GetProvider(n, c)
    \/ ListProviders

SpecRegistry == InitRegistry /\ [][NextRegistry]_vars

\* the register() calls so far whose name is n up to letter case
RegistrationsOf(n) == {i \in DOMAIN reg_log : Lower(reg_log[i].name) = Lower(n)}
LastRegistered(n) ==
    reg_log[CHOOSE i \in RegistrationsOf(n) : \A j \in RegistrationsOf(n) : j <= i].cls

\* C9: registry round trip, whatever the letter case: once a name has been
\* registered, get_provider with any spelling of it calls the constructor last
\* registered under that name exactly once, with exactly the config given, and
\* returns what that constructor produced (for a constructor that returns an
\* instance: that instance).
C9_RoundTripAnyCase ==
    (ret.op = "get_provider" /\ RegistrationsOf(ret.name) # {}) =>
        LET Ctor == LastRegistered(ret.name)
        IN  /\ calls = <<[cls |-> Ctor, config |-> ret.config]>>
            /\ ret.out = Construct(Ctor, ret.config)
            /\ (Ctor \in MockClasses => ret.out = Ok(Instance(Ctor, ret.config)))

C9_Witness ==
    /\ ret.op = "get_provider"
    /\ ret.name = "FOO"
    /\ \E i \in DOMAIN reg_log : reg_log[i].name = "foo"
    /\ \A i \in DOMAIN reg_log : reg_log[i].name # "FOO"
    /\ calls = <<[cls |-> LastRegistered("foo"), config |-> ret.config]>>
    /\ ret.out.ok

\* C10: a name never registered in any letter case: get_provider raises the
\* unknown-provider error, whose message names the name asked for and lists
\* every name registered so far; no constructor is called and the registry is
\* what it was.
C10_UnknownProviderError ==
    (ret.op = "get_provider" /\ RegistrationsOf(ret.name) = {}) =>
        /\ ~ret.out.ok
        /\ ret.out.exc = "ValueError"
        /\ ret.out.msg.text = "Unknown LLM provider"
        /\ ret.out.msg.requested = ret.name
        /\ {ret.out.msg.available[i] : i \in DOMAIN ret.out.msg.available}
             = {Lower(reg_log[i].name) : i \in DOMAIN reg_log}
        /\ calls = <<>>
        /\ providers = ret.before

C10_Witness ==
    /\ ret.op = "get_provider"
    /\ ret.name = "bar"
    /\ ~ret.out.ok
    /\ \E i \in DOMAIN ret.out.msg.available : ret.out.msg.available[i] = "foo"
    /\ calls = <<>>

\* the entries the registry holds for n, up to letter case
EntriesOf(n) == {i \in DOMAIN providers : providers[i].name = Lower(n)}

\* C11: re-registering a name, in any letter case, raises nothing and the last
\* writer wins: register always returns normally; after any sequence of
\* register calls the registry holds exactly one entry for each lower-cased
\* name registered, with the class of the most recent register call for it;
\* and get_provider of any spelling constructs with that class.
C11_LastWriterWins ==
    /\ ret.op = "register" => ret.out.ok
    /\ \A i \in DOMAIN reg_log :
          /\ Cardinality(EntriesOf(reg_log[i].name)) = 1
          /\ ClassOf(providers, Lower(reg_log[i].name)) = LastRegistered(reg_log[i].name)
    /\ (ret.op = "get_provider" /\ RegistrationsOf(ret.name) # {}) =>
          /\ Len(calls) = 1
          /\ calls[1].cls = LastRegistered(ret.name)

\* "foo" registered with MockA, then "FOO" with MockB: get_provider("foo")
\* constructs a MockB
C11_Witness ==
    /\ ret.op = "get_provider"
    /\ ret.name = "foo"
    /\ registered = 2
    /\ reg_log[Len(reg_log) - 1] = Entry("foo", "MockA")
    /\ reg_log[Len(reg_log)] = Entry("FOO", "MockB")
    /\ Cardinality(EntriesOf("foo")) = 1
    /\ calls = <<[cls |-> "MockB", config |-> ret.config]>>
    /\ ret.out = Ok(Instance("MockB", ret.config))

\* list_providers returned exactly the lower-cased names registered so far
\* (the adapters' own registrations included), each exactly once
ListingExact ==
    ret.op = "list_providers" =>
        LET q == ret.out.val.items
            registered_names == {Lower(reg_log[i].name) : i \in DOMAIN reg_log}
        IN  /\ ret.out.ok
            /\ {q[i] : i \in DOMAIN q} = registered_names
            /\ Len(q) = Cardinality(registered_names)

\* C12: the registry is append-only: no step of register, get_provider
\* (returning or raising) or list_providers removes a registered name, and
\* list_providers returns exactly the lower-cased names registered so far,
\* each exactly once.
C12_AppendOnly ==
    /\ [][NameSet(providers) \subseteq NameSet(providers')]_vars
    /\ []ListingExact

\* "foo" registered on top of the adapters, a failing get_provider in between:
\* list_providers still lists the adapters' names and foo
C12_Witness ==
    /\ ret.op = "list_providers"
    /\ registered = 1
    /\ reg_log[Len(reg_log)].name = "FOO"
    /\ \E i \in DOMAIN ret.out.val.items : ret.out.val.items[i] = "foo"
    /\ \E i \in DOMAIN ret.out.val.items : ret.out.val.items[i] = "openai"
    /\ Len(ret.out.val.items) = Len(ret.before)

-----------------------------------------------------------------------------
(* The adapters: construction, _extract_content and query *)

\* the adapter's `name` property
adapter_name(cls) ==
    CASE cls = "OpenAIAdapter"     -> "openai"
      [] cls = "AnthropicAdapter"  -> "anthropic"
      [] cls = "XAIAdapter"        -> "xai"
      [] cls = "LiteLLMAdapter"    -> "litellm"
      [] cls = "PerplexityAdapter" -> "perplexity"

\* LLMResponse(content, provider, model, usage, metadata)
LLMResponse(content, provider, mdl, usage, metadata) ==
    [content |-> content, provider |-> provider, model |-> mdl, usage |-> usage,
     metadata |-> metadata]

\* a plausible bug: the configured completion_params win over the caller's
completion_kwargs_defaults_win(cls, config, kwargs) ==
    IF cls = "LiteLLMAdapter"
    THEN Map(DictUpdate(kwargs.m, DictGet(config.m, "completion_params", EmptyDict).m))
    ELSE kwargs

\* the keyword arguments of the remote call: LiteLLM merges the configured
\* completion_params under the caller's kwargs, the others pass kwargs on
completion_kwargs(cls, config, kwargs) ==
    IF cls = "LiteLLMAdapter"
    THEN Map(DictUpdate(DictGet(config.m, "completion_params", EmptyDict).m, kwargs.m))
    ELSE kwargs

\* one call of the remote client
RemoteCall(cls, options) == [provider |-> adapter_name(cls), options |-> options]

\* LiteLLMAdapter.query: usage, when the response carries a truthy one
UsageKeys == {"prompt_tokens", "completion_tokens", "total_tokens"}
usage_of(cls, response) ==
    IF cls = "LiteLLMAdapter" /\ hasattr(response, "usage")
       /\ Truthy(getattr(response, "usage"))
    THEN Map([k \in UsageKeys |->
                IF hasattr(getattr(response, "usage"), k)
                THEN getattr(getattr(response, "usage"), k) ELSE Num(0)])
    ELSE None

\* LiteLLMAdapter._get_provider_from_model on the models of the model
get_provider_from_model(m) ==
    CASE m \in {"gemini/gemini-pro", "gemini/gemini-pro-vision"} -> "gemini"
      [] m \in supported_models("AnthropicAdapter") -> "anthropic"
      [] m \in supported_models("OpenAIAdapter")    -> "openai"
      [] OTHER -> "unknown"

\* the metadata of the envelope
metadata_of(cls, config, response) ==
    IF cls = "LiteLLMAdapter"
    THEN Map([k \in {"raw_response", "actual_provider", "response_type"} |->
                CASE k = "raw_response"    -> response
                  [] k = "actual_provider" ->
                        Str(get_provider_from_model(model(cls, config).s))
                  [] OTHER                 -> Str("<type>")])
    ELSE Map([k \in {"raw_response", "response_type"} |->
                IF k = "raw_response" THEN response ELSE Str("<type>")])

\* what query did: its outcome, the records it logged, the remote calls made
Queried(out, logged, sent) == [out |-> out, log |-> logged, sent |-> sent]

QueryError == Logged("error", "Error querying")

\* the provider literal that each query writes into its envelope
envelope_provider(cls) ==
    CASE cls = "OpenAIAdapter"     -> "openai"
      [] cls = "AnthropicAdapter"  -> "anthropic"
      [] cls = "XAIAdapter"        -> "xai"
      [] cls = "LiteLLMAdapter"    -> "litellm"
      [] cls = "PerplexityAdapter" -> adapter_name(cls)

\* a plausible bug: a failed remote call is swallowed and an envelope with an
\* empty content returned in its place
query_swallowing(cls, config, kwargs, remote) ==
    LET sent == <<RemoteCall(cls, completion_kwargs(cls, config, kwargs))>>
    IN  IF ~remote.ok
        THEN Queried(Ok(LLMResponse(Str(""), adapter_name(cls), model(cls, config),
                                    None, EmptyDict)),
                     <<QueryError>>, sent)
        ELSE LET e == extract_content(cls, remote.val)
             IN  Queried(IF e.out.ok /\ IsStr(e.out.val)
                         THEN Ok(LLMResponse(e.out.val, envelope_provider(cls),
                                             model(cls, config),
                                             usage_of(cls, remote.val),
                                             metadata_of(cls, config, remote.val)))
                         ELSE Raise("TypeError", "object of type 'NoneType' has no len()"),
                         e.log, sent)

\* query(prompt, **kwargs) of an adapter of class cls built from config;
\* `remote` is the outcome of the remote call.  len(content) in the closing
\* debug message raises TypeError on a content that is None; every exception
\* is logged and re-raised.
query(cls, config, kwargs, remote) ==
    LET sent == <<RemoteCall(cls, completion_kwargs(cls, config, kwargs))>>
    IN  IF ~remote.ok THEN Queried(remote, <<QueryError>>, sent)
        ELSE LET e == extract_content(cls, remote.val)
             IN  IF ~e.out.ok THEN Queried(e.out, e.log \o <<QueryError>>, sent)
                 ELSE IF ~IsStr(e.out.val)
                 THEN Queried(Raise("TypeError", "object of type 'NoneType' has no len()"),
                              e.log \o <<QueryError>>, sent)
                 ELSE Queried(Ok(LLMResponse(e.out.val, envelope_provider(cls),
                                             model(cls, config),
                                             usage_of(cls, remote.val),
                                             metadata_of(cls, config, remote.val))),
                              e.log, sent)

\* the attribute is not there
NoAttr == [t |-> "no-attribute"]

\* the values of a response's `content`: a string, None, no blocks, a block
\* with a text, a block without one
ContentValues ==
    {Str("from content"), None, List(<<>>),
     List(<<Obj([text |-> Str("from block")])>>),
     List(<<Obj([type |-> Str("image")])>>)}

\* the values of a response's `choices`: None, no choice, a first choice with
\* message.content, with text, with neither
ChoicesValues ==
    {None, List(<<>>),
     List(<<Obj([message |-> Obj([content |-> Str("from choice message")])])>>),
     List(<<Obj([text |-> Str("from choice text")])>>),
     List(<<Obj([finish_reason |-> Str("stop")])>>)}

AttrNames == {"content", "text", "message", "result", "choices"}

\* the object whose attributes are those of c that are there
ObjOf(c) == Obj([k \in {n \in AttrNames : c[n] # NoAttr} |-> c[k]])

\* what the remote client can return: an object with any of the five
\* attributes, or a bare string
RawResponses ==
    {ObjOf(c) : c \in [content : ContentValues \cup {NoAttr},
                       text    : {Str("from text"), NoAttr},
                       message : {Str("from message"), NoAttr},
                       result  : {Str("from result"), NoAttr},
                       choices : ChoicesValues \cup {NoAttr}]}
    \cup {Str("plain text")}

\* the remote call returns a response or raises
RemoteOutcomes ==
    {Ok(r) : r \in RawResponses} \cup {Raise("RuntimeError", "remote call failed")}

\* the caller's keyword arguments: option keys, none of them a parameter name
\* of the remote call
KwargSets == {EmptyDict, Map([temperature |-> Num(1), top_p |-> Num(3)])}

\* a supported model of the class that is not its default, and one that no
\* class supports
OtherModel(cls) ==
    CASE cls = "OpenAIAdapter"     -> "gpt-4o"
      [] cls = "AnthropicAdapter"  -> "claude-3-haiku-20240307"
      [] cls = "XAIAdapter"        -> "grok-beta"
      [] cls = "LiteLLMAdapter"    -> "gpt-4o"
      [] cls = "PerplexityAdapter" -> "sonar"
NoSuchModel == "no-such-model"

\* the configuration dictionaries handed to an adapter's constructor
AdapterConfigs(cls) ==
    {Map([k \in {n \in {"api_key", "model", "completion_params"} : c[n] # NoAttr}
            |-> c[k]]) :
       c \in [api_key : {NoAttr, Str(""), Str("sk-key")},
              model   : {NoAttr, Str(""), Str(OtherModel(cls)), Str(NoSuchModel)},
              completion_params :
                  {NoAttr, Map([temperature |-> Num(2), max_tokens |-> Num(64)])}]}

\* LiteLLMAdapter.validate_config: the model carries one of the supported
\* prefixes (claude, gpt, gemini, command, ...), on the models of the model
has_supported_prefix(m) ==
    m \in supported_models("LiteLLMAdapter") \cup supported_models("OpenAIAdapter")
          \cup supported_models("AnthropicAdapter")

\* the warnings of validate_config: LiteLLM's, for a model it may not support
validation_log(cls, config) ==
    IF cls = "LiteLLMAdapter" /\ Construct(cls, config).ok
       /\ ~has_supported_prefix(model(cls, config).s)
    THEN <<Logged("warning", "Model may not be supported by LiteLLM")>>
    ELSE <<>>

InitAdapter ==
    /\ pc = "start"
    /\ fs = OneFile(Absent)
    /\ env = [v \in EnvVars |-> None]
    /\ providers = <<>>
    /\ reg_log = <<>>
    /\ llm_config = NoObject
    /\ ret = NoCall
    /\ calls = <<>>
    /\ registered = 0
    /\ mbase = NoObject
    /\ moverride = NoObject
    /\ mresult = NoObject
    /\ adapter = NoObject
    /\ log = <<>>
    /\ ReportIdle

\* adapter = cls(config): BaseLLMProvider.__init__ validates, and the caller
\* holds an adapter only when it returned
NewAdapter(cls, config) ==
    /\ pc = "start"
    /\ LET out == Construct(cls, config)
       IN  /\ ret' = [op |-> "construct", cls |-> cls, config |-> config, out |-> out]
           /\ adapter' = IF out.ok THEN out.val ELSE NoObject
           /\ pc' = IF out.ok THEN "constructed" ELSE "done"
    /\ calls' = <<Instance(cls, config)>>
    /\ log' = validation_log(cls, config)
    /\ UNCHANGED <<reportVars, fs, env, providers, llm_config, registered, reg_log,
                   mbase, moverride, mresult>>

\* adapter._extract_content(response).  Neither this call nor query changes
\* the adapter, so the caller's one call stands for each of its calls.
ExtractContent(response) ==
    /\ pc = "constructed"
    /\ LET e == extract_content(adapter.cls, response)
       IN  /\ ret' = [op |-> "_extract_content", response |-> response, out |-> e.out]
           /\ log' = e.log
    /\ pc' = "done"
    /\ calls' = <<>>
    /\ UNCHANGED <<reportVars, fs, env, providers, llm_config, registered, reg_log,
                   mbase, moverride, mresult, adapter>>

\* adapter.query(prompt, **kwargs), the remote call ending as `remote`
Query(kwargs, remote) ==
    /\ pc = "constructed"
    /\ LET q == query(adapter.cls, adapter.config, kwargs, remote)
       IN  /\ ret' = [op |-> "query", kwargs |-> kwargs, remote |-> remote,
                      out |-> q.out, sent |-> q.sent]
           /\ log' = q.log
    /\ pc' = "done"
    /\ calls' = <<>>
    /\ UNCHANGED <<reportVars, fs, env, providers, llm_config, registered, reg_log,
                   mbase, moverride, mresult, adapter>>

NextAdapter ==
    \/ \E cls \in AdapterClasses : \E config \in AdapterConfigs(cls) :
          NewAdapter(cls, config)
    \/ \E response \in RawResponses : ExtractContent(response)
    \/ \E kwargs \in KwargSets, remote \in RemoteOutcomes : Query(kwargs, remote)

SpecAdapter == InitAdapter /\ [][NextAdapter]_vars

-----------------------------------------------------------------------------
(* Content extraction *)

Extracting == ret.op = "_extract_content"

\* response.choices is there and holds at least one choice
Populated(response) ==
    hasattr(response, "choices") /\ Truthy(getattr(response, "choices"))

\* the field the priority order content > text > message > result > choices
\* selects on a response, "fallback" when it has none of them
PriorityField(response) ==
    CASE hasattr(response, "content") -> "content"
      [] ~hasattr(response, "content") /\ hasattr(response, "text") -> "text"
      [] \A n \in {"content", "text"} : ~hasattr(response, n)
         /\ hasattr(response, "message") -> "message"
      [] \A n \in {"content", "text", "message"} : ~hasattr(response, n)
         /\ hasattr(response, "result") -> "result"
      [] \A n \in {"content", "text", "message", "result"} : ~hasattr(response, n)
         /\ Populated(response) -> "choices"
      [] OTHER -> "fallback"

\* the first choice carries a message.content or a text
ChoiceHasText(choice) ==
    \/ hasattr(choice, "message") /\ hasattr(getattr(choice, "message"), "content")
    \/ hasattr(choice, "text")

\* the outcomes that come from one field of the response: `content` as a whole
\* or by its first block, a first choice by message.content or text (one with
\* neither is left open here)
FromField(field, response) ==
    CASE field = "content" ->
            {Ok(str(getattr(response, "content"))),
             FromContentBlocks(getattr(response, "content")).out}
      [] field \in {"text", "message", "result"} ->
            {Ok(str(getattr(response, field)))}
      [] field = "choices" ->
            LET choice == getattr(response, "choices").items[1]
            IN  IF ChoiceHasText(choice) THEN {FromChoice(choice, Fallback(response)).out}
                ELSE {ret.out}
      [] OTHER -> {Ok(str(response))}

\* C13: every adapter's _extract_content takes its value from the first field
\* present in the order content, text, message, result, choices, and falls
\* back to the stringified response when none is; a response with both
\* `content` and a populated `choices` yields the content value.
C13_SamePriorityOrder ==
    Extracting => ret.out \in FromField(PriorityField(ret.response), ret.response)

\* the response exposes `choices` with a first element, and none of content,
\* text, message, result
ChoicesOnly(response) == PriorityField(response) = "choices"

\* C14: for every adapter a response exposing only a `choices` list is
\* normalized from its first element: its message.content if it has one, else
\* its text.
C14_ChoicesOnlyFromFirstElement ==
    (Extracting /\ ChoicesOnly(ret.response)
       /\ ChoiceHasText(getattr(ret.response, "choices").items[1]))
    => LET choice == getattr(ret.response, "choices").items[1]
       IN  ret.out = Ok(IF hasattr(choice, "message")
                           /\ hasattr(getattr(choice, "message"), "content")
                        THEN str(getattr(getattr(choice, "message"), "content"))
                        ELSE str(getattr(choice, "text")))

\* response.content is a list holding at least one block
ContentBlocks(response) ==
    /\ hasattr(response, "content")
    /\ getattr(response, "content").t = "list"
    /\ Len(getattr(response, "content").items) > 0

\* C15: for every adapter, a `content` that is a list of blocks yields the
\* first block's text when the block has one, else the stringified block, and
\* never the stringified list.
C15_FirstBlockOfContent ==
    (Extracting /\ ContentBlocks(ret.response))
    => LET block == getattr(ret.response, "content").items[1]
       IN  /\ ret.out = Ok(IF hasattr(block, "text") THEN str(getattr(block, "text"))
                           ELSE str(block))
           /\ ret.out # Ok(str(getattr(ret.response, "content")))

-----------------------------------------------------------------------------
(* query and its envelope *)

\* a call of query whose remote call returned a response
Answered == ret.op = "query" /\ ret.remote.ok

\* the first choice of a populated `choices` has neither message.content nor text
BareChoice(response) ==
    Populated(response) /\ ~ChoiceHasText(getattr(response, "choices").items[1])

\* C16: for every adapter and every response the remote call returns, query
\* returns an envelope whose content is a string.
C16_EnvelopeContentIsString ==
    Answered => (ret.out.ok /\ IsStr(ret.out.val.content))

\* every envelope that query does return carries a string
ReturnedContentIsString ==
    (ret.op = "query" /\ ret.out.ok) => IsStr(ret.out.val.content)

\* the response exposes none of content, text, message, result, choices
Unrecognized(response) == \A n \in AttrNames : ~hasattr(response, n)

\* a warning is among the records of the last call
WarningLogged == \E i \in 1..Len(log) : log[i].level = "warning"

\* C17: for every adapter a response with none of the recognized fields is
\* stringified whole with a warning logged, and neither _extract_content nor
\* query raises.
C17_UnknownShapeIsNotFatal ==
    /\ (Extracting /\ Unrecognized(ret.response))
       => (ret.out = Ok(str(ret.response)) /\ WarningLogged)
    /\ (Answered /\ Unrecognized(ret.remote.val))
       => (/\ ret.out.ok
           /\ ret.out.val.content = str(ret.remote.val)
           /\ WarningLogged)

\* query returned the stringified unknown object, under a warning
C17_Witness ==
    /\ Answered
    /\ ret.remote.val = Obj(NoItems)
    /\ ret.out.ok
    /\ ret.out.val.content = Repr(Obj(NoItems))
    /\ log = <<UnknownStructure>>

-----------------------------------------------------------------------------
(* Construction and validate_config *)

Constructing == ret.op = "construct"

\* the config carries no credential
CredentialAbsent(config) == "api_key" \notin DOMAIN config.m

\* the effective model is not one of the adapter's supported_models
ModelUnsupported(cls, config) ==
    ~(IsStr(model(cls, config)) /\ model(cls, config).s \in supported_models(cls))

\* the constructor raised the configuration error (a ValueError in the code)
ConfigurationError == ~ret.out.ok /\ ret.out.exc = "ValueError"

\* C18: for every adapter, construction fails with a configuration error
\* whenever the credential is absent or the effective model is not in
\* supported_models, and an instance exists only if both checks passed.
C18_ConstructionValidates ==
    Constructing =>
      /\ (CredentialAbsent(ret.config) \/ ModelUnsupported(ret.cls, ret.config))
         => (ConfigurationError /\ adapter = NoObject)
      /\ adapter # NoObject
         => (~CredentialAbsent(ret.config) /\ ~ModelUnsupported(ret.cls, ret.config))

\* the error names the missing credential
MissingCredentialError ==
    ConfigurationError /\ ret.out.msg.text = "API key is required"

\* C19: for every adapter, construction with both a missing credential and an
\* unsupported model raises the missing-credential error: the credential is
\* checked before the model.
C19_CredentialCheckedFirst ==
    (Constructing /\ CredentialAbsent(ret.config)
       /\ ModelUnsupported(ret.cls, ret.config))
    => MissingCredentialError

\* the config carries a model: the key is there and its value is not empty
HasModel(config) == "model" \in DOMAIN config.m /\ Truthy(config.m["model"])

\* the model the adapter is to use: the explicit one, else its default_model
EffectiveModel(cls, config) ==
    IF HasModel(config) THEN config.m["model"] ELSE Str(default_model(cls))

\* the config carries a credential
ValidCredential(config) == Truthy(DictGet(config.m, "api_key", None))

\* C20: for every adapter the model is the explicit config value when there is
\* one and default_model otherwise; with a valid credential, a config with no
\* `model` key, or an empty one, is accepted and the adapter reports
\* default_model.
C20_ModelDefaultsWhenNotConfigured ==
    Constructing =>
      /\ adapter # NoObject
         => model(adapter.cls, adapter.config) = EffectiveModel(ret.cls, ret.config)
      /\ (ValidCredential(ret.config) /\ ~HasModel(ret.config))
         => (/\ ret.out.ok
             /\ adapter # NoObject
             /\ model(adapter.cls, adapter.config) = Str(default_model(ret.cls)))

-----------------------------------------------------------------------------
(* query: the remote call, its options, the envelope's producer *)

Querying == ret.op = "query"

\* C21: for every adapter one query makes exactly one remote call, and when
\* that call fails query fails with the very same error: no envelope comes
\* back and nothing replaces the error.
C21_OneRemoteCallErrorPropagates ==
    Querying => /\ Len(ret.sent) = 1
                /\ ~ret.remote.ok => (~ret.out.ok /\ ret.out = ret.remote)

\* the remote call failed and the caller got that error, after one call
C21_Witness ==
    /\ Querying
    /\ ret.remote = Raise("RuntimeError", "remote call failed")
    /\ ret.out = Raise("RuntimeError", "remote call failed")
    /\ Len(ret.sent) = 1
    /\ log = <<QueryError>>

\* the option keys in play
OptionKeys == {"temperature", "max_tokens", "top_p"}

\* the completion_params of the queried adapter's config
Defaults == DictGet(adapter.config.m, "completion_params", EmptyDict).m

\* the options of the one remote call
SentOptions == ret.sent[1].options.m

\* caller's value if supplied, else the configured default, else not sent
MergedCallerWins ==
    \A k \in OptionKeys :
       IF k \in DOMAIN ret.kwargs.m
       THEN k \in DOMAIN SentOptions /\ SentOptions[k] = ret.kwargs.m[k]
       ELSE IF k \in DOMAIN Defaults
       THEN k \in DOMAIN SentOptions /\ SentOptions[k] = Defaults[k]
       ELSE k \notin DOMAIN SentOptions

\* C22 as stated: in every query the options sent are the caller's merged
\* over the config's completion_params, the caller winning.
C22_OptionsMergedAsStated == Querying => MergedCallerWins

\* C22: LiteLLMAdapter.query sends the caller's options merged over the
\* config's completion_params, the caller winning; the other adapters send
\* the caller's options alone.
C22_OptionsMerged ==
    Querying => IF adapter.cls = "LiteLLMAdapter" THEN MergedCallerWins
                ELSE ret.sent[1].options = ret.kwargs

\* a collision, a default alone and a caller's option alone, all in one call
C22_Witness ==
    /\ Querying
    /\ adapter.cls = "LiteLLMAdapter"
    /\ "completion_params" \in DOMAIN adapter.config.m
    /\ Defaults["temperature"] = Num(2)
    /\ ret.kwargs = Map([temperature |-> Num(1), top_p |-> Num(3)])
    /\ ret.sent[1].options =
          Map([temperature |-> Num(1), max_tokens |-> Num(64), top_p |-> Num(3)])

\* C23: every envelope a successful query returns names its producer:
\* provider is the name of the adapter queried and model is that adapter's
\* effective model, the configured one when the config (after a
\* model_override) holds one.
C23_EnvelopeNamesProducer ==
    (Querying /\ ret.out.ok)
    => /\ ret.out.val.provider = adapter_name(adapter.cls)
       /\ ret.out.val.model = EffectiveModel(adapter.cls, adapter.config)

\* an envelope carrying a configured model that is not the default
C23_Witness ==
    /\ Querying
    /\ ret.out.ok
    /\ adapter.cls = "AnthropicAdapter"
    /\ HasModel(adapter.config)
    /\ ret.out.val.provider = "anthropic"
    /\ ret.out.val.model = Str(OtherModel("AnthropicAdapter"))
    /\ ret.out.val.model # Str(default_model("AnthropicAdapter"))

-----------------------------------------------------------------------------
(* Adapter loading: the import of riot_pulse.llm.providers runs              *)
(* _load_adapters, then the caller asks get_llm_provider for an adapter      *)

ModuleNames == {AdapterModules[i].name : i \in DOMAIN AdapterModules}

\* the files and environments of this specification
LoadingFiles ==
    { OneFile(Absent),
      OneFile(Parsed(Map("llm" :> Map("provider" :> Str("openai"))))),
      OneFile(Parsed(Map("llm" :> Map("provider" :> Str("litellm")
                                      @@ "litellm" :> Map("model" :> Str("gpt-4o")))))),
      OneFile(Parsed(Str("llm"))) }

LoadingEnvironments ==
    { [v \in EnvVars |->
         CASE v = "LLM_PROVIDER" -> p
           [] v = "OPENAI_API_KEY" -> ko
           [] OTHER -> None] :
        p \in {None, Str("anthropic")},
        ko \in {None, Str("key-openai")} }

InitLoading ==
    /\ pc = "start"
    /\ fs \in LoadingFiles
    /\ env \in LoadingEnvironments
    /\ providers = <<>>
    /\ reg_log = <<>>
    /\ llm_config = NoObject
    /\ ret = NoCall
    /\ calls = <<>>
    /\ registered = 0
    /\ mbase = NoObject
    /\ moverride = NoObject
    /\ mresult = NoObject
    /\ adapter = NoObject
    /\ log = <<>>
    /\ ReportIdle

\* import riot_pulse.llm.providers: _load_adapters(), the adapter modules
\* outside `importable` raising ImportError
LoadAdapters(importable) ==
    /\ pc = "start"
    /\ pc' = "imported"
    /\ providers' = load_adapters(importable)
    /\ reg_log' = import_log(importable)
    /\ ret' = [op |-> "_load_adapters", out |-> Ok(None),
               failed |-> ModuleNames \ importable]
    /\ calls' = <<>>
    /\ UNCHANGED <<reportVars, fs, env, llm_config, registered, mbase, moverride, mresult,
                   adapter, log>>

\* get_llm_provider(None, provider_override, model_override) once the module
\* is imported
GetLLMProviderLoaded(provider_override, model_override) ==
    LET r == get_llm_provider(fs, env, providers, provider_override, model_override)
    IN  /\ pc = "imported"
        /\ pc' = "done"
        /\ ret' = [op |-> "get_llm_provider", po |-> provider_override,
                   mo |-> model_override, out |-> r.out, sel |-> r.sel]
        /\ calls' = r.calls
        /\ llm_config' = config_after_call(load_config(fs, env), r.sel, llm_config)
        /\ UNCHANGED <<reportVars, fs, env, providers, registered, reg_log,
                       mbase, moverride, mresult, adapter, log>>

NextLoading ==
    \/ \E importable \in SUBSET ModuleNames : LoadAdapters(importable)
    \/ \E po \in ProviderOverrides, mo \in ModelOverrides :
          GetLLMProviderLoaded(po, mo)

SpecLoading == InitLoading /\ [][NextLoading]_vars

\* the adapters whose import failed
Omitted == ModuleNames \ NameSet(providers)

\* C24: whatever subset of the adapter modules fails to import,
\* _load_adapters returns normally and the registry holds exactly the
\* adapters whose import succeeded; get_llm_provider then ends as it would
\* with every adapter loaded unless the selected provider is an omitted one
\* (or one that never existed), and in that case it raises the
\* unknown-provider error, never an import error.
C24_LoadingIsBestEffort ==
    /\ ret.op = "_load_adapters"
       => /\ ret.out.ok
          /\ NameSet(providers) = ModuleNames \ ret.failed
          /\ \A i \in DOMAIN AdapterModules :
                AdapterModules[i].name \in NameSet(providers)
                => ClassOf(providers, AdapterModules[i].name) = AdapterModules[i].cls
          /\ Len(providers) = Cardinality(NameSet(providers))
    /\ (ret.op = "get_llm_provider" /\ pc = "done")
       => IF ret.sel # NoObject /\ Lower(ret.sel.name.s) \notin NameSet(providers)
          THEN /\ ret.out = UnknownProvider(ret.sel.name.s, providers)
               /\ Lower(ret.sel.name.s) \in Omitted \cup {"acme"}
          ELSE ret.out = get_llm_provider(fs, env, load_adapters(ModuleNames),
                                          ret.po, ret.mo).out

\* openai alone failed to import and was the provider selected: the
\* unknown-provider error, listing the four that loaded
C24_Witness ==
    /\ ret.op = "get_llm_provider"
    /\ Omitted = {"openai"}
    /\ ret.sel # NoObject
    /\ ret.sel.name = Str("openai")
    /\ ~ret.out.ok
    /\ ret.out.msg.text = "Unknown LLM provider"
    /\ ret.out.msg.available = <<"perplexity", "anthropic", "xai", "litellm">>

-----------------------------------------------------------------------------
(* LLMTester: dry_run_config and test_provider *)

\* the result dictionary of dry_run_config
DryRunResult(success, provider, mdl, errors, warnings) ==
    [success |-> success, provider |-> provider, model |-> mdl,
     errors |-> errors, warnings |-> warnings]

\* what a tester method did: the result it returned, and the get_llm_provider
\* call it made
Tested(result, r) == [result |-> result, inner |-> r.out, calls |-> r.calls]

NoApiKeyWarning == [text |-> "No API key found"]
ModelNotSupported == [text |-> "Model not in supported models"]

\* dry_run_config after its get_llm_provider call returned or raised as r:
\* an exception becomes the one entry of errors; on an adapter, a missing
\* api_key is a warning and a model outside supported_models an error that
\* resets success
dry_run_on(r, cls, config, supported) ==
    IF ~r.out.ok
    THEN Tested(DryRunResult(FALSE, None, None, <<r.out.msg>>, <<>>), r)
    ELSE Tested(DryRunResult(supported, Str(adapter_name(cls)), model(cls, config),
                             IF supported THEN <<>> ELSE <<ModelNotSupported>>,
                             IF Truthy(DictGet(config.m, "api_key", None))
                             THEN <<>> ELSE <<NoApiKeyWarning>>), r)

\* a plausible bug: an exception is caught and nothing is recorded
dry_run_silent(r) ==
    IF ~r.out.ok THEN Tested(DryRunResult(FALSE, None, None, <<>>, <<>>), r)
    ELSE dry_run_on(r, r.out.val.cls, r.out.val.config,
                    IsStr(model(r.out.val.cls, r.out.val.config))
                    /\ model(r.out.val.cls, r.out.val.config).s
                          \in supported_models(r.out.val.cls))

\* the body of dry_run_config, on the outcome r of get_llm_provider
dry_run(r) ==
    IF ~r.out.ok THEN dry_run_on(r, "", EmptyDict, FALSE)
    ELSE dry_run_on(r, r.out.val.cls, r.out.val.config,
                    IsStr(model(r.out.val.cls, r.out.val.config))
                    /\ model(r.out.val.cls, r.out.val.config).s
                          \in supported_models(r.out.val.cls))

\* LLMTester.dry_run_config(None, provider_override, model_override)
dry_run_config(files, e, reg, provider_override, model_override) ==
    dry_run(get_llm_provider(files, e, reg, provider_override, model_override))

\* ProviderTestResult; response_time, a measured duration, is left out
ProviderTestResult(provider_name, mdl, success, response_length, error, response_preview) ==
    [provider_name |-> provider_name, model |-> mdl, success |-> success,
     response_length |-> response_length, error |-> error,
     response_preview |-> response_preview]

\* content[:100] + "..." if len(content) > 100 else content
Preview(content) ==
    IF Len(content.s) > 100
    THEN [t |-> "str", s |-> "<first 100 characters>...", of |-> content]
    ELSE content

\* the result of a failed test: except Exception as e
TestFailed(provider_name, mdl, out) ==
    ProviderTestResult(provider_name, IF Truthy(mdl) THEN mdl ELSE Str("unknown"),
                       FALSE, 0, out.msg, None)

\* test_provider once provider.query(prompt) returned or raised as q
test_queried(r, provider_name, mdl, q) ==
    IF ~q.out.ok THEN Tested(TestFailed(provider_name, mdl, q.out), r)
    ELSE Tested(ProviderTestResult(Str(adapter_name(r.out.val.cls)),
                                   model(r.out.val.cls, r.out.val.config), TRUE,
                                   Len(q.out.val.content.s), None,
                                   Preview(q.out.val.content)), r)

\* the body of test_provider, on the outcome r of get_llm_provider
test_on(r, provider_name, mdl, remote) ==
    IF ~r.out.ok THEN Tested(TestFailed(provider_name, mdl, r.out), r)
    ELSE test_queried(r, provider_name, mdl,
                      query(r.out.val.cls, r.out.val.config, EmptyDict, remote))

\* LLMTester.test_provider(provider_name, model), the remote call of its one
\* query ending as `remote`
test_provider(files, e, reg, provider_name, mdl, remote) ==
    test_on(get_llm_provider(files, e, reg, provider_name, mdl),
            provider_name, mdl, remote)

\* the files, environments and arguments of this specification
TesterFiles ==
    { OneFile(Absent),
      OneFile(Parsed(Map("llm" :> Map("provider" :> Str("openai")
                                      @@ "openai" :> Map("model" :> Str("gpt-4o")))))),
      OneFile(Parsed(Str("llm"))) }

TesterEnvironments ==
    { [v \in EnvVars |->
         CASE v = "LLM_PROVIDER" -> p
           [] v = "OPENAI_API_KEY" -> ko
           [] OTHER -> None] :
        p \in {None, Str("openai"), Str("litellm")},
        ko \in {None, Str("key-openai")} }

TesterProviders == {None, Str("openai"), Str("litellm"), Str("acme")}
TesterModels == {None, Str("gpt-4-turbo"), Str(NoSuchModel)}

TesterRemotes ==
    { Ok(Obj([content |-> Str("from content")])),
      Ok(Obj([choices |-> List(<<Obj([finish_reason |-> Str("stop")])>>)])),
      Raise("RuntimeError", "remote call failed") }

InitTester ==
    /\ pc = "start"
    /\ fs \in TesterFiles
    /\ env \in TesterEnvironments
    /\ \E i \in ImportableSets :
          /\ providers = load_adapters(i)
          /\ reg_log = import_log(i)
    /\ llm_config = NoObject
    /\ ret = NoCall
    /\ calls = <<>>
    /\ registered = 0
    /\ mbase = NoObject
    /\ moverride = NoObject
    /\ mresult = NoObject
    /\ adapter = NoObject
    /\ log = <<>>
    /\ ReportIdle

\* the caller holds what the tester method returned
Returned(op, po, mo, remote, d) ==
    /\ ret' = [op |-> op, po |-> po, mo |-> mo, remote |-> remote,
               out |-> Ok(d.result), inner |-> d.inner]
    /\ calls' = d.calls

\* LLMTester().dry_run_config(None, provider_override, model_override)
DryRunConfig(provider_override, model_override) ==
    /\ pc = "start"
    /\ pc' = "done"
    /\ Returned("dry_run_config", provider_override, model_override, Ok(None),
                dry_run_config(fs, env, providers, provider_override, model_override))
    /\ UNCHANGED <<reportVars, fs, env, providers, llm_config, registered, reg_log,
                   mbase, moverride, mresult, adapter, log>>

\* LLMTester().test_provider(provider_name, model)
TestProvider(provider_name, mdl, remote) ==
    /\ pc = "start"
    /\ pc' = "done"
    /\ Returned("test_provider", provider_name, mdl, remote,
                test_provider(fs, env, providers, provider_name, mdl, remote))
    /\ UNCHANGED <<reportVars, fs, env, providers, llm_config, registered, reg_log,
                   mbase, moverride, mresult, adapter, log>>

NextTester ==
    \/ \E po \in TesterProviders, mo \in TesterModels : DryRunConfig(po, mo)
    \/ \E n \in TesterProviders, m \in TesterModels, remote \in TesterRemotes :
          TestProvider(n, m, remote)

SpecTester == InitTester /\ [][NextTester]_vars

DryRun == ret.op = "dry_run_config"

\* the texts of the problems a dry run reported, errors and warnings alike
Reported ==
    {ret.out.val.errors[i].text : i \in DOMAIN ret.out.val.errors}
    \cup {ret.out.val.warnings[i].text : i \in DOMAIN ret.out.val.warnings}

ReportsCredential == Reported \cap {"API key is required", "No API key found"} # {}
ReportsModel ==
    Reported \cap {"Unsupported model", "Model not in supported models"} # {}

\* the adapter of the selected provider was handed a config with no usable
\* credential and a model outside its supported_models
BothProblems ==
    /\ calls # <<>>
    /\ calls[1].cls \in AdapterClasses
    /\ ~ValidCredential(calls[1].config)
    /\ ModelUnsupported(calls[1].cls, calls[1].config)

\* C25: when the selected provider has both a missing credential and an
\* unsupported model, the result of dry_run_config reports both problems.
C25_DryRunReportsAllProblems ==
    (DryRun /\ BothProblems) => (ReportsCredential /\ ReportsModel)

TestRun == ret.op = "test_provider"

\* the one query of test_provider, made once get_llm_provider returned an adapter
TestQuery == query(ret.inner.val.cls, ret.inner.val.config, EmptyDict, ret.remote)

\* what went wrong in the tester's call, if anything did: resolution, registry
\* lookup or adapter validation inside get_llm_provider, or the query
Failure ==
    IF ~ret.inner.ok THEN ret.inner
    ELSE IF TestRun /\ ~TestQuery.out.ok THEN TestQuery.out
    ELSE Ok(None)

\* C30: the diagnostic entry points never raise: whatever fails, dry_run_config
\* returns a result with success false and a non-empty errors list, and
\* test_provider a result with success false, response_length 0 and the text of
\* the error; and dry_run_config says success only with no error listed and
\* with provider and model set.
C30_DiagnosticsNeverRaise ==
    /\ (DryRun \/ TestRun) => ret.out.ok
    /\ (DryRun /\ ~Failure.ok) =>
          /\ ~ret.out.val.success
          /\ ret.out.val.errors = <<Failure.msg>>
    /\ (DryRun /\ ret.out.val.success) =>
          /\ ret.out.val.errors = <<>>
          /\ ret.out.val.provider # None
          /\ ret.out.val.model # None
    /\ (TestRun /\ ~Failure.ok) =>
          /\ ~ret.out.val.success
          /\ ret.out.val.response_length = 0
          /\ ret.out.val.error = Failure.msg

\* a dry run whose get_llm_provider raised: the provider is not registered, or
\* its adapter refused the config
C30_Witness ==
    /\ DryRun
    /\ ~ret.inner.ok
    /\ ret.inner.exc = "ValueError"
    /\ ~ret.out.val.success

-----------------------------------------------------------------------------
(* Report generation: ReportGenerator.generate_report walks the configured   *)
(* games and, for each, the configured aspects; every pair is analyzed by    *)
(* RiotSocialListenerAgent.analyze_game_aspect, which builds the analyzer's  *)
(* prompt and sends it to the provider in one blocking query.  The loops'    *)
(* position is in pc and at; queries records the provider queries in the     *)
(* order they were issued.                                                   *)

\* the members of the two enumerations, by value
RiotGames == {"valorant", "league_of_legends", "teamfight_tactics",
              "legends_of_runeterra", "riot_forge"}
AnalysisAspects == {"sentiment", "patches", "esports", "crisis", "trending", "meta"}

\* the attribute name of each member of RiotGames
MemberName(game) ==
    CASE game = "valorant"             -> "VALORANT"
      [] game = "league_of_legends"    -> "LEAGUE_OF_LEGENDS"
      [] game = "teamfight_tactics"    -> "TEAMFIGHT_TACTICS"
      [] game = "legends_of_runeterra" -> "LEGENDS_OF_RUNETERRA"
      [] game = "riot_forge"           -> "RIOT_FORGE"
RiotGamesMembers == {MemberName(g) : g \in RiotGames}

\* AnalysisAspects.get_display_name
aspect_display_name(aspect) ==
    CASE aspect = "sentiment" -> "Community Sentiment"
      [] aspect = "patches"   -> "Patch Analysis"
      [] aspect = "esports"   -> "Esports Scene"
      [] aspect = "crisis"    -> "Crisis Detection"
      [] aspect = "trending"  -> "Trending Topics"
      [] aspect = "meta"      -> "Competitive Meta"
      [] OTHER                -> aspect

\* _ANALYZER_REGISTRY: every aspect has an analyzer
ANALYZER_REGISTRY == AnalysisAspects

get_analyzer(aspect) ==
    IF aspect \in ANALYZER_REGISTRY THEN Ok(aspect)
    ELSE Raise("ValueError", "No analyzer found for aspect")

\* the keys of the game_sources literal of get_game_specific_sources, in the
\* order the literal evaluates them
game_sources_keys == <<"VALORANT", "LEAGUE_OF_LEGENDS", "TEAMFIGHT_TACTICS",
                       "LEGENDS_OF_RUNETERRA", "TWOXKO", "RIFTBOUND">>

\* RiotGames.<name> for a name that is not a member
NoMember(name) ==
    [ok |-> FALSE, exc |-> "AttributeError",
     msg |-> [text |-> "RiotGames has no attribute", member |-> name]]

\* QueryEnhancer.get_game_specific_sources: the literal is built before the
\* lookup, so the first key that is not a member of RiotGames raises
get_game_specific_sources(game) ==
    LET missing == {i \in DOMAIN game_sources_keys :
                       game_sources_keys[i] \notin RiotGamesMembers}
    IN  IF missing # {}
        THEN NoMember(game_sources_keys[CHOOSE i \in missing :
                                           \A k \in missing : i <= k])
        ELSE Ok(IF MemberName(game) \in {game_sources_keys[i] :
                                            i \in DOMAIN game_sources_keys}
                THEN MemberName(game) ELSE "r/RiotGames")

\* the prompt an analyzer builds for a game
Prompt(aspect, game, enhanced) ==
    [t |-> "prompt", aspect |-> aspect, game |-> game, enhanced |-> enhanced]

\* QueryEnhancer.enhance_query
enhance_query(aspect, game) ==
    LET game_sources == get_game_specific_sources(game)
    IN  IF game_sources.ok THEN Ok(Prompt(aspect, game, TRUE)) ELSE game_sources

\* the analyzers whose generate_query returns QueryEnhancer.enhance_query(...)
EnhancedAspects == {"sentiment", "patches", "crisis"}

\* analyzer.generate_query(game, timeframe)
generate_query(aspect, game) ==
    IF aspect \in EnhancedAspects THEN enhance_query(aspect, game)
    ELSE Ok(Prompt(aspect, game, FALSE))

\* what analyze_game_aspect did: its outcome and the provider queries it issued
Analyzed(out, sent) == [out |-> out, sent |-> sent]

\* RiotSocialListenerAgent.analyze_game_aspect, remote being the outcome of
\* llm_provider.query: the content of the envelope, or the error raised
analyze_game_aspect(game, aspect, remote) ==
    LET analyzer == get_analyzer(aspect)
    IN  IF ~analyzer.ok THEN Analyzed(analyzer, <<>>)
        ELSE LET q == generate_query(analyzer.val, game)
             IN  IF ~q.ok THEN Analyzed(q, <<>>)
                 ELSE Analyzed(remote, <<q.val>>)

\* the contents in which the url pattern of extract_sources_from_content matches
WithUrls == {"analysis, see https://example.com/a"}

\* extract_sources_from_content: a Sources section is appended when the content
\* holds urls
extract_sources_from_content(content) ==
    IF content.s \in WithUrls
    THEN [t |-> "str", s |-> content.s, appended |-> "### Sources"]
    ELSE content

\* inspect_response on the string analyze_game_aspect returned: a str has none
\* of the four attributes, so content = str(response)
inspect_response(response) ==
    IF Truthy(response) THEN extract_sources_from_content(response) ELSE response

\* f"Error: Unable to analyze {aspect_name} - {str(e)}"
UnableToAnalyze(aspect, e) ==
    [t |-> "str", s |-> "Error: Unable to analyze",
     aspect_name |-> aspect_display_name(aspect), cause |-> e.msg]

\* a plausible bug: the failed pair gets no entry
record_pair_dropping_errors(d, aspect, a) ==
    IF a.out.ok THEN DictSet(d, aspect, inspect_response(a.out.val)) ELSE d

\* the body of the inner loop: game_results[aspect] after the try statement
record_pair(d, aspect, a) ==
    IF a.out.ok THEN DictSet(d, aspect, inspect_response(a.out.val))
    ELSE DictSet(d, aspect, UnableToAnalyze(aspect, a.out))

MaxGames == 2
MaxAspects == 2

\* the lists of at most n elements of S
ListsOf(S, n) == UNION {[1..k -> S] : k \in 0..n}

ReportGames == ListsOf(RiotGames, MaxGames)
ReportAspects == ListsOf(AnalysisAspects, MaxAspects)

\* what llm_provider.query hands back to analyze_game_aspect
ReportRemotes ==
    {Ok(Str("analysis")), Ok(Str("analysis, see https://example.com/a")),
     Raise("RuntimeError", "provider unavailable")}

InitReport ==
    /\ pc = "start"
    /\ fs = OneFile(Absent)
    /\ env = [v \in EnvVars |-> None]
    /\ providers = <<>>
    /\ reg_log = <<>>
    /\ llm_config = NoObject
    /\ ret = NoCall
    /\ calls = <<>>
    /\ registered = 0
    /\ mbase = NoObject
    /\ moverride = NoObject
    /\ mresult = NoObject
    /\ adapter = NoObject
    /\ log = <<>>
    /\ ReportIdle

reportFrame == <<fs, env, providers, llm_config, ret, calls, registered, reg_log,
                 mbase, moverride, mresult, adapter, log>>

\* ReportGenerator(config, logger).generate_report() up to results = {}
GenerateReport(games, aspects) ==
    /\ pc = "start"
    /\ pc' = "game"
    /\ report_config' = [games |-> games, aspects |-> aspects]
    /\ at' = [i |-> 1, j |-> 1]
    /\ results' = NoItems
    /\ game_results' = NoItems
    /\ queries' = <<>>
    /\ UNCHANGED <<handed, reportFrame>>

\* for game in self.config.games: game_results = {}
EnterGame ==
    /\ pc = "game"
    /\ at.i <= Len(report_config.games)
    /\ pc' = "aspect"
    /\ game_results' = NoItems
    /\ at' = [at EXCEPT !.j = 1]
    /\ UNCHANGED <<report_config, results, queries, handed, reportFrame>>

\* one turn of for aspect in self.config.aspects
AnalyzePair(remote) ==
    /\ pc = "aspect"
    /\ at.j <= Len(report_config.aspects)
    /\ LET game == report_config.games[at.i]
           aspect == report_config.aspects[at.j]
           a == analyze_game_aspect(game, aspect, remote)
       IN  /\ game_results' = record_pair(game_results, aspect, a)
           /\ queries' = queries \o [k \in DOMAIN a.sent |->
                                        [prompt |-> a.sent[k], answer |-> remote]]
    /\ at' = [at EXCEPT !.j = @ + 1]
    /\ UNCHANGED <<pc, report_config, results, handed, reportFrame>>

\* results[game] = game_results, after the last aspect
LeaveGame ==
    /\ pc = "aspect"
    /\ at.j > Len(report_config.aspects)
    /\ pc' = "game"
    /\ results' = DictSet(results, report_config.games[at.i], game_results)
    /\ at' = [at EXCEPT !.i = @ + 1]
    /\ UNCHANGED <<report_config, game_results, queries, handed, reportFrame>>

\* self.formatter.create_report(results, filename, self.config), after the
\* last game
CreateReport ==
    /\ pc = "game"
    /\ at.i > Len(report_config.games)
    /\ pc' = "done"
    /\ handed' = [results |-> results]
    /\ UNCHANGED <<report_config, at, results, game_results, queries, reportFrame>>

NextReport ==
    \/ \E games \in ReportGames, aspects \in ReportAspects :
          GenerateReport(games, aspects)
    \/ EnterGame
    \/ \E remote \in ReportRemotes : AnalyzePair(remote)
    \/ LeaveGame
    \/ CreateReport

SpecReport == InitReport /\ [][NextReport]_vars

\* a report is being generated or has been
Generating == report_config # NoObject

\* the turns of the inner loop completed so far
Completed ==
    IF pc = "aspect"
    THEN (at.i - 1) * Len(report_config.aspects) + (at.j - 1)
    ELSE (at.i - 1) * Len(report_config.aspects)

\* the first n configured pairs, games outer and aspects inner
PairsUpTo(n) ==
    [k \in 1..n |->
        [game |-> report_config.games[((k - 1) \div Len(report_config.aspects)) + 1],
         aspect |-> report_config.aspects[((k - 1) % Len(report_config.aspects)) + 1]]]

\* the pair each provider query was about
QueriedPairs ==
    [k \in DOMAIN queries |->
        [game |-> queries[k].prompt.game, aspect |-> queries[k].prompt.aspect]]

\* C26: generate_report issues exactly one provider query per configured
\* (game, aspect) pair, one after the other in iteration order, games outer and
\* aspects inner, whatever the game and the aspect: at every point of the run
\* the queries issued are those of the pairs completed so far, in order.
C26_OneQueryPerPairInOrder ==
    Generating => QueriedPairs = PairsUpTo(Completed)

\* the answer to the last provider query about a pair
LastAnswer(game, aspect) ==
    LET about == {k \in DOMAIN queries : /\ queries[k].prompt.game = game
                                         /\ queries[k].prompt.aspect = aspect}
    IN  queries[CHOOSE k \in about : \A n \in about : n <= k].answer

\* the entry of a pair is what its analysis came to: the error string with the
\* cause when building the prompt or the query failed, the content otherwise
Recorded(entry, game, aspect) ==
    IF ~generate_query(aspect, game).ok
    THEN entry = UnableToAnalyze(aspect, generate_query(aspect, game))
    ELSE IF ~LastAnswer(game, aspect).ok
    THEN entry = UnableToAnalyze(aspect, LastAnswer(game, aspect))
    ELSE entry.s = LastAnswer(game, aspect).val.s

ConfiguredGames == {report_config.games[i] : i \in DOMAIN report_config.games}
ConfiguredAspects == {report_config.aspects[j] : j \in DOMAIN report_config.aspects}

\* C29: a failure while analyzing a pair does not stop generate_report: the
\* pair's entry is the 'Error: Unable to analyze ...' string with the cause,
\* the pairs after it are analyzed all the same, and the results handed to the
\* formatter hold exactly one entry for every configured (game, aspect) pair.
C29_FailedPairIsRecordedAndRunGoesOn ==
    /\ (Generating /\ pc = "aspect") =>
          /\ DOMAIN game_results =
                {report_config.aspects[j] : j \in 1..(at.j - 1)}
          /\ \A a \in DOMAIN game_results :
                Recorded(game_results[a], report_config.games[at.i], a)
    /\ (Generating /\ pc \in {"game", "aspect"}) =>
          /\ DOMAIN results = {report_config.games[i] : i \in 1..(at.i - 1)}
          /\ \A g \in DOMAIN results : DOMAIN results[g] = ConfiguredAspects
    /\ handed # NoObject =>
          /\ DOMAIN handed.results = ConfiguredGames
          /\ \A g \in ConfiguredGames :
                /\ DOMAIN handed.results[g] = ConfiguredAspects
                /\ \A a \in ConfiguredAspects : Recorded(handed.results[g][a], g, a)

\* the formatter was handed the results of a run whose first query failed and
\* whose next query, for a later pair, was answered
C29_Witness ==
    /\ handed # NoObject
    /\ Len(queries) >= 2
    /\ ~queries[1].answer.ok
    /\ queries[2].answer.ok
    /\ queries[2].prompt # queries[1].prompt
    /\ \E g \in ConfiguredGames, a \in ConfiguredAspects :
          handed.results[g][a] = UnableToAnalyze(a, queries[1].answer)

-----------------------------------------------------------------------------
(* The stored configuration across resolution: the merge on its arguments,   *)
(* get_provider_config called twice on one LLMConfig, a caller writing to    *)
(* one of the two selections, and get_llm_provider with its overrides.       *)

\* the top-level keys a caller writes into a selection's config, as
\* get_llm_provider does with update() and ["model"] = ...
WrittenKeys == {"model", "temperature"}

InitFrame == Init \/ InitMerge

\* a second llm_config.get_provider_config() on the same LLMConfig
GetProviderConfigAgain ==
    /\ pc = "done"
    /\ ret.op = "get_provider_config"
    /\ pc' = "again"
    /\ ret' = [op |-> "get_provider_config_again", first |-> ret.out,
               out |-> get_provider_config(llm_config, env)]
    /\ llm_config' = config_after_selection(llm_config, get_provider_config(llm_config, env))
    /\ UNCHANGED <<reportVars, fs, env, providers, calls, registered, reg_log,
                   mbase, moverride, mresult, adapter, log>>

\* d[key] = value on a selection's config
Written(config, key) == Map(DictSet(config.m, key, Str("written")))

\* first["config"][key] = "written" by the caller holding both selections: the
\* second selection's config and the stored section are other objects unless
\* the selections were handed out without a copy
ModifySelection(key) ==
    /\ pc = "again"
    /\ ret.first.ok /\ ret.out.ok
    /\ IsDict(ret.first.val.config)
    /\ pc' = "done"
    /\ ret' = [op |-> "modified", key |-> key, before |-> ret.out,
               first |-> Ok([name |-> ret.first.val.name,
                             config |-> Written(ret.first.val.config, key)]),
               out |-> Ok([name |-> ret.out.val.name,
                           config |-> IF HasSection(llm_config)
                                      THEN After(ret.out.val.config,
                                                 selection_object(llm_config),
                                                 Written(ret.first.val.config, key))
                                      ELSE ret.out.val.config])]
    /\ llm_config' = config_after(llm_config, Written(ret.first.val.config, key))
    /\ UNCHANGED <<reportVars, fs, env, providers, calls, registered, reg_log,
                   mbase, moverride, mresult, adapter, log>>

NextFrame ==
    \/ Next
    \/ MergeConfigs
    \/ GetProviderConfigAgain
    \/ \E key \in WrittenKeys : ModifySelection(key)

SpecFrame == InitFrame /\ [][NextFrame]_vars

\* what a step of resolution leaves in the stored configuration and in the
\* selections handed out earlier
FrameStep ==
    /\ mresult' # mresult => (mbase' = mbase /\ moverride' = moverride)
    /\ llm_config # NoObject => llm_config' = llm_config
    /\ (ret'.op = "get_llm_provider" /\ ret' # ret /\ load_config(fs, env).ok)
          => llm_config' = load_config(fs, env).val
    /\ (ret'.op = "get_provider_config_again" /\ ret' # ret) => ret'.out = ret'.first
    /\ (ret'.op = "modified" /\ ret' # ret) => ret'.out = ret.out

\* C27: resolution does not change the stored configuration: _merge_configs
\* leaves both its arguments as they were, get_provider_config and the
\* overrides of get_llm_provider leave LLMConfig.config as it was loaded, two
\* successive get_provider_config calls return equal selections, and writing a
\* top-level key of one selection's config changes neither the other selection
\* nor the stored configuration.
C27_ResolutionLeavesStoredConfig == [][FrameStep]_vars

\* a caller wrote to the first of two selections of a provider whose section
\* the configuration stores
C27_Witness ==
    /\ ret.op = "modified"
    /\ HasSection(llm_config)
    /\ ret.first.val.config # ret.out.val.config
    /\ ret.first.val.config # StoredSection(llm_config)

-----------------------------------------------------------------------------
(* The config handed to the adapter of an overriding provider *)

\* the provider_override names another provider than the one file, environment
\* and defaults select
OverridesSelection == Given(ret.po) /\ ret.po # EnvSelected

\* C28: with a provider_override B other than the provider A that file,
\* environment and defaults select, the config handed to the adapter of B holds
\* nothing of A: each of its keys is a key of the merged section of B, or
\* api_key, or model when a model_override set it.
C28_OverrideConfigHoldsNothingOfSelected ==
    (Handed /\ OverridesSelection) =>
        \A k \in DOMAIN calls[1].config.m :
            \/ k \in DOMAIN MergedSection(ret.po.s)
            \/ k = "api_key"
            \/ k = "model" /\ Given(ret.mo)

====
